---- MODULE Spec2Model ----
(***************************************************************************)
(* ConnectWith: point-to-point file transfer.                              *)
(*                                                                         *)
(* The module models the components of the repository, each from its       *)
(* source, and gives one specification per component:                      *)
(*   Spec      FileReceiver (file_receiver.h) over FileWriter and          *)
(*             isPathSafe (path_validator.h), driven by decoded frames     *)
(*   SpecPath  the same receiver with every file name up to MaxNameLen     *)
(*             components                                                  *)
(*   SpecRead  Connection read path: doRead / processBuffer /              *)
(*             dispatchPacket over a byte stream (connection.h)            *)
(*   SpecWrite Connection write path: send / doWrite / writeQueueFront     *)
(*   SpecSend  the sender driver cw::transfer::sendFile                    *)
(*   SpecWriter   FileWriter called directly, with the files' contents     *)
(*   SpecQueue    the write queue's byte counter and isCongested           *)
(*   SpecSession  the server's sessions and who keeps them alive           *)
(*   SpecTransfer TransferOrchestrator: transferFiles and requestStop      *)
(*   SpecE2e      a sender connected to a receiver over the byte stream    *)
(*   SpecSafe     isPathSafe on requested paths and base directories       *)
(*   SpecFrame    tryParseFrame and parseFrame on buffers of every size    *)
(*   SpecPacket   payloadSize, serialize, deserialize and buildFrame       *)
(*   SpecPressure the chunk loop of sendFile against doWrite and the       *)
(*                write completions; SpecPressureFair adds fair scheduling *)
(*   SpecSendPacket  Connection::send called with valid and invalid        *)
(*                packets                                                  *)
(*   SpecOrch     TransferOrchestrator: startTransfer, its threads and a   *)
(*                caller polling isTransferring; SpecOrchFair adds fair    *)
(*                scheduling                                               *)
(***************************************************************************)
EXTENDS Integers, Sequences, FiniteSets, TLC

VARIABLES
  \* ---- FileReceiver / FileWriter / filesystem -------------------------
  m_rejected,      \* FileReceiver::m_rejected
  m_sendAckSet,    \* whether FileReceiver::m_sendAck holds a callback
  m_file,          \* FileWriter::m_file: [open, path]
  m_expectedSize,  \* FileWriter::m_expectedSize
  m_bytesWritten,  \* FileWriter::m_bytesWritten
  fsDirs,          \* directories that exist (absolute, resolved component lists)
  fsFiles,         \* regular files that exist
  acks,            \* every Ack handed to the ack callback, in order
  budget,          \* frames the peer may still deliver
  ev,              \* the frame handled by the last onPacket call, with the state before it
  wcalls,          \* the IFileWriter calls made by the last onPacket call
  evOut,           \* the packets sent by the last onPacket call
  evTarget,        \* lexically normal target of the last beginFile
  evNewDirs,       \* directories created by the last onPacket call
  chunkSum,        \* data lengths written since the last successful beginFile
  peer             \* what the peer may send: [names, sizes, faults], fixed per run

recvVars == <<m_rejected, m_sendAckSet, m_file, m_expectedSize, m_bytesWritten,
              fsDirs, fsFiles, acks, budget, ev, wcalls, evOut, evTarget, evNewDirs,
              chunkSum, peer>>

VARIABLES
  rd_frames,        \* the frames the peer writes to the socket, fixed per run
  rd_stream,        \* the bytes of those frames that no async_read_some returned yet
  reading,          \* a doRead is armed
  openOk,           \* whether opening a download file succeeds, fixed per run
  m_incomingBuffer, \* Connection::m_incomingBuffer
  m_outFileOpen,    \* Connection::m_outFile.is_open()
  m_receivedBytes,  \* Connection::m_receivedBytes
  delivered,        \* frames dispatchPacket handled and processBuffer erased
  faulted,          \* some dispatchPacket call ended in an exception
  posted            \* frames whose doWrite is posted to the executor, in post order

readVars == <<rd_frames, rd_stream, reading, openOk, m_incomingBuffer, m_outFileOpen,
              m_receivedBytes, delivered, faulted, posted>>

VARIABLES
  m_writeQueue,     \* Connection::m_writeQueue
  m_queueSize,      \* Connection::m_queueSize
  socketOpen,       \* m_socket has not been closed
  inFlight,         \* the buffers of the async_write operations started and not completed
  wire,             \* the bytes the socket has accepted, in order
  enqueued,         \* the frames in the order their doWrite ran
  sendsLeft,        \* send calls the run may still make
  failedAt          \* how many doWrite calls had run when a write failed; -1 before

writeVars == <<m_writeQueue, m_queueSize, socketOpen, inFlight, wire, enqueued, sendsLeft,
               failedAt>>

VARIABLES
  sf_local,         \* the local file: [exists, size, filename, opens], fixed per run
  sf_remoteName,    \* the remoteName argument, fixed per run
  sf_pc,            \* where sendFile is
  sf_fileSize,      \* fileSize
  sf_nameToSend,    \* nameToSend
  sf_offset,        \* offset
  sf_filePos,       \* the read position of the ifstream
  sf_fileGood,      \* the ifstream converts to true
  emitted,          \* the packets passed to sender.send, in order
  emitPolls,        \* for each of them the isCongested calls since the one before
  polls,            \* isCongested calls since the last send: [count, last]
  congestedRun      \* consecutive isCongested calls that returned true

sendVars == <<sf_local, sf_remoteName, sf_pc, sf_fileSize, sf_nameToSend, sf_offset,
              sf_filePos, sf_fileGood, emitted, emitPolls, polls, congestedRun>>

VARIABLES
  fsData,           \* the content of the files written through FileWriter calls
  wr_call,          \* the last FileWriter call, with the writer before it
  wr_left           \* FileWriter calls the run may still make

fileVars == <<fsData, wr_call, wr_left>>

VARIABLES
  rd_tail           \* bytes the peer writes after its frames, fixed per run

VARIABLES
  qz_posted,        \* sizes of the frames whose doWrite is posted, in post order
  qz_writeQueue,    \* sizes of the frames in Connection::m_writeQueue
  qz_queueSize,     \* Connection::m_queueSize
  qz_writing,       \* an async_write of the head of the queue is outstanding
  qz_socketOpen,    \* m_socket has not been closed
  qz_step,          \* the executor step that ran last
  qz_left           \* send calls the run may still make

queueVars == <<qz_posted, qz_writeQueue, qz_queueSize, qz_writing, qz_socketOpen, qz_step,
               qz_left>>

VARIABLES
  ss_sessions,      \* the sessions the server created: what is alive, who owns the connection
  ss_accepting      \* the session whose async_accept is outstanding, 0 when none is

sessVars == <<ss_sessions, ss_accepting>>

VARIABLES
  tr_pc,            \* where TransferOrchestrator::transferFiles is
  tr_entries,       \* the files the directory iteration has not reached yet
  tr_stop,          \* request_stop was called on the transfer thread
  tr_stopAt         \* how many packets had been sent when it was called; -1 before

transVars == <<tr_pc, tr_entries, tr_stop, tr_stopAt>>

VARIABLES
  m_transferThread, \* TransferOrchestrator::m_transferThread: the thread it identifies, 0 when not joinable
  tr_threads,       \* the transfer threads that were started, in starting order
  tr_caller,        \* the thread that calls the orchestrator: where it is and with which path
  tr_sent           \* the packets handed to m_sender.send, each with its thread and file

orchVars == <<m_transferThread, tr_threads, tr_caller, tr_sent>>

VARIABLES
  e2e_files,        \* the source files of a transfer into a receiver, in sending order, fixed per run
  e2e_read,         \* how many bytes of the sender's frames the receiver's reads returned
  e2e_pc            \* where the receiving connection is: "read" or "extract"; "none" without one

e2eVars == <<e2e_files, e2e_read, e2e_pc>>

VARIABLES
  lastCall          \* the last call of a function that keeps no state: its arguments and result

\* the variables of the components modelled further below
otherVars == <<fileVars, rd_tail, queueVars, sessVars, transVars, orchVars, e2eVars, lastCall>>

vars == <<recvVars, readVars, writeVars, sendVars, otherVars>>

NoCall == [op |-> "none"]

\* a run that makes no call on a FileWriter of its own
FileIdle ==
  /\ fsData = <<>>
  /\ wr_call = NoCall
  /\ wr_left = 0

\* a run that does not follow frame sizes through the write queue
QueueIdle ==
  /\ qz_posted = <<>>
  /\ qz_writeQueue = <<>>
  /\ qz_queueSize = 0
  /\ qz_writing = FALSE
  /\ qz_socketOpen = TRUE
  /\ qz_step = "none"
  /\ qz_left = 0

\* a run without a server
SessionIdle ==
  /\ ss_sessions = <<>>
  /\ ss_accepting = 0

\* a run without a TransferOrchestrator
TransferIdle ==
  /\ tr_pc = "none"
  /\ tr_entries = <<>>
  /\ tr_stop = FALSE
  /\ tr_stopAt = -1

\* a run in which no orchestrator method is called from outside
OrchIdle ==
  /\ m_transferThread = 0
  /\ tr_threads = <<>>
  /\ tr_caller = [pc |-> "none"]
  /\ tr_sent = <<>>

\* a run in which no sender is connected to a receiver
E2eIdle ==
  /\ e2e_files = <<>>
  /\ e2e_read = 0
  /\ e2e_pc = "none"

\* a run that calls none of those functions on its own
CallIdle == lastCall = NoCall

OtherIdle ==
  /\ FileIdle /\ rd_tail = <<>> /\ QueueIdle /\ SessionIdle /\ TransferIdle /\ OrchIdle /\ E2eIdle
  /\ CallIdle

NoPolls == [count |-> 0, last |-> TRUE]

\* a run in which sendFile is never called
SendIdle ==
  /\ sf_local = [exists |-> FALSE, size |-> 0, filename |-> <<>>, opens |-> FALSE]
  /\ sf_remoteName = <<>>
  /\ sf_pc = "finished"
  /\ sf_fileSize = 0
  /\ sf_nameToSend = <<>>
  /\ sf_offset = 0
  /\ sf_filePos = 0
  /\ sf_fileGood = FALSE
  /\ emitted = <<>>
  /\ emitPolls = <<>>
  /\ polls = NoPolls
  /\ congestedRun = 0

\* the write side of a run that never sends
WriteIdle ==
  /\ m_writeQueue = <<>>
  /\ m_queueSize = 0
  /\ socketOpen = TRUE
  /\ inFlight = <<>>
  /\ wire = <<>>
  /\ enqueued = <<>>
  /\ sendsLeft = 0
  /\ failedAt = -1

\* the connection of a run that drives the receiver alone
ReadIdle ==
  /\ rd_frames = <<>>
  /\ rd_stream = <<>>
  /\ reading = FALSE
  /\ openOk = TRUE
  /\ m_incomingBuffer = <<>>
  /\ m_outFileOpen = FALSE
  /\ m_receivedBytes = 0
  /\ delivered = <<>>
  /\ faulted = FALSE
  /\ posted = <<>>

(***************************************************************************)
(* Bounds                                                                  *)
(***************************************************************************)
MaxNameLen == 3     \* components in a received file name
MaxFrames == 4      \* frames delivered to one receiver
MaxPathFrames == 1  \* frames delivered to one receiver when every name is tried
MaxSize == 2        \* declared sizes, chunk offsets and chunk lengths

Min(a, b) == IF a < b THEN a ELSE b
Front(s) == SubSeq(s, 1, Len(s) - 1)
Last(s) == s[Len(s)]
IsPrefix(p, s) == Len(p) <= Len(s) /\ SubSeq(s, 1, Len(p)) = p

(***************************************************************************)
(* std::filesystem::path, as used by FileWriter and isPathSafe.  A path    *)
(* is [abs, comps]: whether it has a root directory, and its elements; an  *)
(* empty last element is the empty filename after a trailing separator.    *)
(***************************************************************************)
Path(abs, comps) == [abs |-> abs, comps |-> comps]

EmptyPath == Path(FALSE, <<>>)

NameAlphabet == {"a", "x", "..", "."}

RECURSIVE SeqsUpTo(_, _)
SeqsUpTo(S, n) ==
  IF n = 0 THEN {<<>>}
  ELSE LET shorter == SeqsUpTo(S, n - 1)
       IN shorter \cup {Append(s, c) : s \in {t \in shorter : Len(t) = n - 1}, c \in S}

\* the file names a peer can put in a FileInfo: relative or absolute
Names == {Path(abs, comps) : abs \in BOOLEAN, comps \in SeqsUpTo(NameAlphabet, MaxNameLen)}

\* relative names of at most one component: enough for every outcome of beginFile
ShortNames == {n \in Names : Len(n.comps) <= 1 /\ ~n.abs}

\* the receiver's base directory "/a": absolute and canonical
BaseDir == Path(TRUE, <<"a">>)

\* path::operator/
PathAppend(base, rel) ==
  IF rel.abs THEN rel
  ELSE IF rel.comps = <<>> THEN Path(base.abs, base.comps \o <<"">>)
  ELSE Path(base.abs, base.comps \o rel.comps)

\* path::has_parent_path / path::parent_path
HasParentPath(p) == p.abs \/ Len(p.comps) > 1

ParentPath(p) == IF p.comps = <<>> THEN p ELSE Path(p.abs, Front(p.comps))

RECURSIVE NormalStep(_, _, _, _, _)
NormalStep(comps, i, abs, stack, trail) ==
  IF i > Len(comps) THEN [stack |-> stack, trail |-> trail]
  ELSE LET c == comps[i] IN
       IF c \in {"", "."} THEN NormalStep(comps, i + 1, abs, stack, TRUE)
       ELSE IF c = ".." THEN
         IF stack # <<>> /\ Last(stack) # ".."
           THEN NormalStep(comps, i + 1, abs, Front(stack), TRUE)
         ELSE IF stack = <<>> /\ abs
           THEN NormalStep(comps, i + 1, abs, stack, TRUE)
         ELSE NormalStep(comps, i + 1, abs, Append(stack, ".."), FALSE)
       ELSE NormalStep(comps, i + 1, abs, Append(stack, c), FALSE)

\* path::lexically_normal
LexicallyNormal(p) ==
  LET r == NormalStep(p.comps, 1, p.abs, <<>>, FALSE) IN
  IF r.stack = <<>> THEN (IF p.abs THEN Path(TRUE, <<>>)
                          ELSE IF p.comps = <<>> THEN EmptyPath
                          ELSE Path(FALSE, <<".">>))
  ELSE IF Last(r.stack) # ".." /\ r.trail THEN Path(p.abs, Append(r.stack, ""))
  ELSE Path(p.abs, r.stack)

RECURSIVE Mismatch(_, _, _)
Mismatch(a, b, i) ==
  IF i <= Len(a) /\ i <= Len(b) /\ a[i] = b[i] THEN Mismatch(a, b, i + 1) ELSE i

RECURSIVE Repeat(_, _)
Repeat(c, n) == IF n <= 0 THEN <<>> ELSE <<c>> \o Repeat(c, n - 1)

RECURSIVE Depth(_, _)
Depth(b, i) ==
  IF i > Len(b) THEN 0
  ELSE (IF b[i] = ".." THEN -1 ELSE IF b[i] \in {"", "."} THEN 0 ELSE 1) + Depth(b, i + 1)

\* path::lexically_relative
LexicallyRelative(p, base) ==
  IF p.abs # base.abs THEN EmptyPath
  ELSE LET i == Mismatch(p.comps, base.comps, 1)
           aRest == SubSeq(p.comps, i, Len(p.comps))
           n == Depth(base.comps, i)
       IN IF aRest = <<>> /\ i > Len(base.comps) THEN Path(FALSE, <<".">>)
          ELSE IF n = 0 /\ (aRest = <<>> \/ aRest[1] = "") THEN Path(FALSE, <<".">>)
          ELSE IF n >= 0 THEN Path(FALSE, Repeat("..", n) \o aRest)
          ELSE EmptyPath

(***************************************************************************)
(* The filesystem: what the operating system does with a path.  Without    *)
(* symbolic links a path resolves component by component.                  *)
(***************************************************************************)
Root == <<>>

ParentDir(d) == IF d = <<>> THEN <<>> ELSE Front(d)

\* std::filesystem::canonical(baseDir, ec): fails when the directory does not exist
Canonical(p, dirs) == [ok |-> p.abs /\ p.comps \in dirs, path |-> p]

\* std::filesystem::absolute(p, ec): the current directory is the root
Absolute(p) == Path(TRUE, p.comps)

RECURSIVE MkDirs(_, _, _, _, _)
MkDirs(comps, i, cur, dirs, files) ==
  IF i > Len(comps) THEN [ok |-> TRUE, dirs |-> dirs]
  ELSE LET c == comps[i] IN
       IF c \in {"", "."} THEN MkDirs(comps, i + 1, cur, dirs, files)
       ELSE IF c = ".." THEN MkDirs(comps, i + 1, ParentDir(cur), dirs, files)
       ELSE LET nxt == Append(cur, c) IN
            IF nxt \in files THEN [ok |-> FALSE, dirs |-> dirs]
            ELSE MkDirs(comps, i + 1, nxt, dirs \cup {nxt}, files)

\* std::filesystem::create_directories(p, ec); fault: the system refuses
CreateDirectories(p, dirs, files, fault) ==
  IF fault = "mkdir" THEN [ok |-> FALSE, dirs |-> dirs]
  ELSE MkDirs(p.comps, 1, Root, dirs, files)

RECURSIVE WalkDir(_, _, _, _)
WalkDir(comps, i, cur, dirs) ==
  IF cur \notin dirs THEN [ok |-> FALSE, dir |-> cur]
  ELSE IF i > Len(comps) THEN [ok |-> TRUE, dir |-> cur]
  ELSE LET c == comps[i] IN
       IF c \in {"", "."} THEN WalkDir(comps, i + 1, cur, dirs)
       ELSE IF c = ".." THEN WalkDir(comps, i + 1, ParentDir(cur), dirs)
       ELSE WalkDir(comps, i + 1, Append(cur, c), dirs)

\* std::ofstream::open(p, std::ios::binary): create or truncate a regular file
OpenTrunc(p, dirs, files, fault) ==
  IF fault = "open" \/ p.comps = <<>> \/ Last(p.comps) \in {"", ".", ".."}
    THEN [ok |-> FALSE, file |-> <<>>]
  ELSE LET w == WalkDir(Front(p.comps), 1, Root, dirs)
           f == Append(w.dir, Last(p.comps))
       IN IF ~w.ok \/ f \in dirs THEN [ok |-> FALSE, file |-> <<>>]
          ELSE [ok |-> TRUE, file |-> f]

\* variant of isPathSafe that goes on when canonical(baseDir) fails
IsPathSafeAnyBase(requestedPath, baseDir, dirs) ==
  LET normalized == LexicallyNormal(Absolute(requestedPath))
      relative == LexicallyRelative(normalized, baseDir)
  IN IF relative = EmptyPath THEN FALSE
     ELSE IF relative.comps[1] = ".." THEN FALSE
     ELSE IF relative.abs THEN FALSE
     ELSE TRUE

\* variant of isPathSafe that skips lexically_normal
IsPathSafeNoNormal(requestedPath, baseDir, dirs) ==
  LET canonicalBase == Canonical(baseDir, dirs)
      absoluteRequested == Absolute(requestedPath)
      relative == LexicallyRelative(absoluteRequested, canonicalBase.path)
  IN IF ~canonicalBase.ok THEN FALSE
     ELSE IF relative = EmptyPath THEN FALSE
     ELSE IF relative.comps[1] = ".." THEN FALSE
     ELSE IF relative.abs THEN FALSE
     ELSE TRUE

(***************************************************************************)
(* isPathSafe (path_validator.h)                                           *)
(***************************************************************************)
IsPathSafe(requestedPath, baseDir, dirs) ==
  LET canonicalBase == Canonical(baseDir, dirs)
      absoluteRequested == Absolute(requestedPath)
      normalized == LexicallyNormal(absoluteRequested)
      relative == LexicallyRelative(normalized, canonicalBase.path)
  IN IF ~canonicalBase.ok THEN FALSE
     ELSE IF relative = EmptyPath THEN FALSE
     ELSE IF relative.comps[1] = ".." THEN FALSE
     ELSE IF relative.abs THEN FALSE
     ELSE TRUE

(***************************************************************************)
(* FileWriter.  A writer is [file, expectedSize, bytesWritten]; the        *)
(* operators return the writer after the call, the filesystem and the      *)
(* value returned.                                                         *)
(***************************************************************************)
ClosedFile == [open |-> FALSE, path |-> <<>>]

Writer == [file |-> m_file, expectedSize |-> m_expectedSize, bytesWritten |-> m_bytesWritten]

\* variant of close that keeps the handle
KeepOpen(w) == w

\* FileWriter::close
Close(w) == [w EXCEPT !.file = ClosedFile]

\* variant of beginFile that goes on counting from the file before
BeginFileKeepsCount(w, relativePath, expectedSize, dirs, files, fault) ==
  LET closed == Close(w)
      targetPath == PathAppend(BaseDir, relativePath)
  IN IF ~IsPathSafe(targetPath, BaseDir, dirs)
       THEN [res |-> "PathTraversal", w |-> closed, dirs |-> dirs, files |-> files]
     ELSE LET mk == IF HasParentPath(targetPath)
                      THEN CreateDirectories(ParentPath(targetPath), dirs, files, fault)
                      ELSE [ok |-> TRUE, dirs |-> dirs]
          IN IF ~mk.ok
               THEN [res |-> "CreateDirFailed", w |-> closed, dirs |-> mk.dirs, files |-> files]
             ELSE LET op == OpenTrunc(targetPath, mk.dirs, files, fault) IN
                  IF ~op.ok
                    THEN [res |-> "OpenFailed", w |-> closed, dirs |-> mk.dirs, files |-> files]
                  ELSE [res |-> "ok",
                        w |-> [file |-> [open |-> TRUE, path |-> op.file],
                               expectedSize |-> expectedSize,
                               bytesWritten |-> w.bytesWritten],
                        dirs |-> mk.dirs,
                        files |-> files \cup {op.file}]

\* FileWriter::beginFile
BeginFile(w, relativePath, expectedSize, dirs, files, fault) ==
  LET closed == Close(w)
      targetPath == PathAppend(BaseDir, relativePath)
  IN IF ~IsPathSafe(targetPath, BaseDir, dirs)
       THEN [res |-> "PathTraversal", w |-> closed, dirs |-> dirs, files |-> files]
     ELSE LET mk == IF HasParentPath(targetPath)
                      THEN CreateDirectories(ParentPath(targetPath), dirs, files, fault)
                      ELSE [ok |-> TRUE, dirs |-> dirs]
          IN IF ~mk.ok
               THEN [res |-> "CreateDirFailed", w |-> closed, dirs |-> mk.dirs, files |-> files]
             ELSE LET op == OpenTrunc(targetPath, mk.dirs, files, fault) IN
                  IF ~op.ok
                    THEN [res |-> "OpenFailed", w |-> closed, dirs |-> mk.dirs, files |-> files]
                  ELSE [res |-> "ok",
                        w |-> [file |-> [open |-> TRUE, path |-> op.file],
                               expectedSize |-> expectedSize,
                               bytesWritten |-> 0],
                        dirs |-> mk.dirs,
                        files |-> files \cup {op.file}]

\* variant of writeChunk that keeps the highest offset reached
WriteChunkHighWater(w, offset, len) ==
  IF ~w.file.open THEN [res |-> "NotOpen", w |-> w]
  ELSE [res |-> "ok",
        w |-> [w EXCEPT !.bytesWritten = IF offset + len > @ THEN offset + len ELSE @]]

\* variant of writeChunk that does not test whether a file is open
WriteChunkUnchecked(w, offset, len) ==
  [res |-> "ok", w |-> [w EXCEPT !.bytesWritten = w.bytesWritten + len]]

\* FileWriter::writeChunk
WriteChunk(w, offset, len) ==
  IF ~w.file.open THEN [res |-> "NotOpen", w |-> w]
  ELSE [res |-> "ok", w |-> [w EXCEPT !.bytesWritten = w.bytesWritten + len]]

\* variant of finishFile that closes only a file of the right size
FinishFileClosesValid(w, finalSize) ==
  [res |-> (w.bytesWritten = finalSize),
   w |-> IF w.bytesWritten = finalSize THEN Close(w) ELSE w]

\* variant of finishFile that accepts extra bytes
FinishFileAtLeast(w, finalSize) ==
  [res |-> (w.bytesWritten >= finalSize), w |-> Close(w)]

\* FileWriter::finishFile
FinishFile(w, finalSize) ==
  [res |-> (w.bytesWritten = finalSize), w |-> Close(w)]

(***************************************************************************)
(* FileReceiver.  A handler returns the receiver's state after the frame:  *)
(* [rejected, w, dirs, files, calls, out, target].                         *)
(***************************************************************************)
NoTarget == EmptyPath

Unchanged(calls) ==
  [rejected |-> m_rejected, w |-> Writer, dirs |-> fsDirs, files |-> fsFiles,
   calls |-> calls, out |-> <<>>, target |-> NoTarget]

\* variant of handleFileInfo in which a rejection is never cleared
HandleFileInfoSticky(fileName, fileSize, fault) ==
  LET result == BeginFile(Writer, fileName, fileSize, fsDirs, fsFiles, fault) IN
  [rejected |-> (m_rejected \/ result.res # "ok"),
   w |-> result.w, dirs |-> result.dirs, files |-> result.files,
   calls |-> <<[op |-> "beginFile", arg |-> fileSize, res |-> result.res]>>,
   out |-> <<>>,
   target |-> LexicallyNormal(Absolute(PathAppend(BaseDir, fileName)))]

\* FileReceiver::handleFileInfo after a successful FileInfo::deserialize
HandleFileInfo(fileName, fileSize, fault) ==
  LET result == BeginFile(Writer, fileName, fileSize, fsDirs, fsFiles, fault) IN
  [rejected |-> (result.res # "ok"),
   w |-> result.w, dirs |-> result.dirs, files |-> result.files,
   calls |-> <<[op |-> "beginFile", arg |-> fileSize, res |-> result.res]>>,
   out |-> <<>>,
   target |-> LexicallyNormal(Absolute(PathAppend(BaseDir, fileName)))]

\* variant of handleFileChunk without the m_rejected test
HandleFileChunkUnguarded(offset, len, malformed) ==
  IF malformed THEN Unchanged(<<>>)
  ELSE LET result == WriteChunk(Writer, offset, len) IN
       [Unchanged(<<[op |-> "writeChunk", arg |-> len, res |-> result.res]>>)
          EXCEPT !.w = result.w]

\* FileReceiver::handleFileChunk; malformed: FileChunk::deserialize throws
HandleFileChunk(offset, len, malformed) ==
  IF m_rejected \/ malformed THEN Unchanged(<<>>)
  ELSE LET result == WriteChunk(Writer, offset, len) IN
       [Unchanged(<<[op |-> "writeChunk", arg |-> len, res |-> result.res]>>)
          EXCEPT !.w = result.w]

\* variant of handleFileDone that acknowledges the size announced by FileInfo
HandleFileDoneAckExpected(fileSize, malformed) ==
  IF malformed \/ m_rejected THEN Unchanged(<<>>)
  ELSE LET result == FinishFile(Writer, fileSize) IN
       [Unchanged(<<[op |-> "finishFile", arg |-> fileSize, res |-> result.res]>>)
          EXCEPT !.w = result.w,
                 !.out = IF result.res /\ m_sendAckSet
                           THEN <<[type |-> "Ack", offset |-> m_expectedSize]>>
                           ELSE <<>>]

\* FileReceiver::handleFileDone; malformed: FileDone::deserialize throws
HandleFileDone(fileSize, malformed) ==
  IF malformed \/ m_rejected THEN Unchanged(<<>>)
  ELSE LET result == FinishFile(Writer, fileSize) IN
       [Unchanged(<<[op |-> "finishFile", arg |-> fileSize, res |-> result.res]>>)
          EXCEPT !.w = result.w,
                 !.out = IF result.res /\ m_sendAckSet
                           THEN <<[type |-> "Ack", offset |-> fileSize]>>
                           ELSE <<>>]

\* Handshake::kCurrentVersion
kCurrentVersion == 1

\* variant of handleHandshake that refuses a peer of another version
HandleHandshakeStrict(protocolVersion, malformed) ==
  [Unchanged(<<>>) EXCEPT
     !.rejected = m_rejected \/ (~malformed /\ protocolVersion # kCurrentVersion),
     !.w = IF ~malformed /\ protocolVersion # kCurrentVersion THEN Close(Writer) ELSE Writer]

\* FileReceiver::handleHandshake: the version is logged, a mismatch is a warning
HandleHandshake(protocolVersion, malformed) == Unchanged(<<>>)

\* what the last successful or failed FileInfo left behind
InfoState(kind, malformed, r) ==
  IF kind = "FileInfo" /\ ~malformed
    THEN (IF r.calls[1].res = "ok" THEN "ok" ELSE "err")
    ELSE ev.infoAfter

\* FileReceiver::onPacket: the state after the handler chosen by frame.type ran
OnPacket(kind, malformed, arg, len, result) ==
  /\ \E r \in {result} :
    /\ m_rejected' = r.rejected
    /\ m_file' = r.w.file
    /\ m_expectedSize' = r.w.expectedSize
    /\ m_bytesWritten' = r.w.bytesWritten
    /\ fsDirs' = r.dirs
    /\ fsFiles' = r.files
    /\ acks' = acks \o r.out
    /\ wcalls' = r.calls
    /\ evOut' = r.out
    /\ evTarget' = r.target
    /\ evNewDirs' = r.dirs \ fsDirs
    /\ chunkSum' = IF r.calls = <<>> THEN chunkSum
                   ELSE IF r.calls[1].op = "beginFile" /\ r.calls[1].res = "ok" THEN 0
                   ELSE IF r.calls[1].op = "writeChunk" /\ r.calls[1].res = "ok"
                     THEN chunkSum + r.calls[1].arg
                   ELSE chunkSum
    /\ ev' = [kind |-> kind, malformed |-> malformed, arg |-> arg, len |-> len,
              rejected |-> m_rejected, open |-> m_file.open,
              written |-> chunkSum, bytesWritten |-> m_bytesWritten,
              infoBefore |-> ev.infoAfter,
              infoAfter |-> InfoState(kind, malformed, r)]
    /\ UNCHANGED <<m_sendAckSet, peer>>

\* one frame of the peer's budget is handed to onPacket
Deliver(kind, malformed, arg, len, result, left) ==
  /\ budget > 0
  /\ budget' = left
  /\ OnPacket(kind, malformed, arg, len, result)
  /\ UNCHANGED <<readVars, writeVars, sendVars, otherVars>>

Sizes == 0..MaxSize

Faults == {"none", "mkdir", "open"}

\* the version this build speaks and one it does not
Versions == {kCurrentVersion, kCurrentVersion + 1}

OnHandshake ==
  \E protocolVersion \in Versions, malformed \in BOOLEAN :
    Deliver("Handshake", malformed, protocolVersion, 0,
            HandleHandshake(protocolVersion, malformed), budget - 1)

OnAck ==
  \E malformed \in BOOLEAN : Deliver("Ack", malformed, 0, 0, Unchanged(<<>>), budget - 1)

OnError ==
  \E malformed \in BOOLEAN : Deliver("Error", malformed, 0, 0, Unchanged(<<>>), budget - 1)

OnUnknown == Deliver("Unknown", FALSE, 0, 0, Unchanged(<<>>), budget - 1)

\* FileReceiver::onDisconnect: the connection is gone, no frame follows
OnDisconnect ==
  Deliver("Disconnect", FALSE, 0, 0,
          [Unchanged(<<[op |-> "close", arg |-> 0, res |-> "ok"]>>) EXCEPT !.w = Close(Writer)],
          0)

OnFileInfo ==
  \/ \E fileName \in peer.names, fileSize \in peer.sizes, fault \in peer.faults :
       Deliver("FileInfo", FALSE, fileSize, 0, HandleFileInfo(fileName, fileSize, fault), budget - 1)
  \/ Deliver("FileInfo", TRUE, 0, 0, Unchanged(<<>>), budget - 1)

OnFileChunk ==
  \E offset \in {0, MaxSize}, len \in peer.sizes, malformed \in BOOLEAN :
    Deliver("FileChunk", malformed, 0, len, HandleFileChunk(offset, len, malformed), budget - 1)

OnFileDone ==
  \E fileSize \in peer.sizes, malformed \in BOOLEAN :
    Deliver("FileDone", malformed, fileSize, 0, HandleFileDone(fileSize, malformed), budget - 1)

NoEvent == [kind |-> "none", malformed |-> FALSE, arg |-> 0, len |-> 0,
            rejected |-> FALSE, open |-> FALSE, written |-> 0, bytesWritten |-> 0,
            infoBefore |-> "none", infoAfter |-> "none"]

RecvInit(frames, p) ==
  /\ budget = frames
  /\ peer = p
  /\ m_rejected = FALSE
  /\ m_sendAckSet \in BOOLEAN
  /\ m_file = ClosedFile
  /\ m_expectedSize = 0
  /\ m_bytesWritten = 0
  /\ fsDirs = {Root, BaseDir.comps}
  /\ fsFiles = {}
  /\ acks = <<>>
  /\ ev = NoEvent
  /\ wcalls = <<>>
  /\ evOut = <<>>
  /\ evTarget = NoTarget
  /\ evNewDirs = {}
  /\ chunkSum = 0

Init ==
  /\ RecvInit(MaxFrames, [names |-> ShortNames, sizes |-> Sizes, faults |-> Faults])
  /\ OtherIdle
  /\ ReadIdle
  /\ WriteIdle
  /\ SendIdle

\* every name up to MaxNameLen components, on a filesystem that does not fail
PathInit ==
  /\ RecvInit(MaxPathFrames, [names |-> Names, sizes |-> {1}, faults |-> {"none"}])
  /\ OtherIdle
  /\ ReadIdle
  /\ WriteIdle
  /\ SendIdle

Next ==
  \/ OnHandshake
  \/ OnAck
  \/ OnFileInfo
  \/ OnFileChunk
  \/ OnFileDone
  \/ OnError
  \/ OnUnknown
  \/ OnDisconnect

Spec == Init /\ [][Next]_vars

SpecPath == PathInit /\ [][Next]_vars

(***************************************************************************)
(* Properties of the receive side.                                         *)
(***************************************************************************)
StrictlyInside(f) == IsPrefix(BaseDir.comps, f) /\ Len(f) > Len(BaseDir.comps)

\* the normalised target of the last FileInfo is not under the base directory
Escapes(t) == ~IsPrefix(BaseDir.comps, t.comps)

WellFormed(kind) == ev.kind = kind /\ ~ev.malformed

\* C1: every file the writer creates or has open lies strictly inside the
\* base directory; a FileInfo whose name resolves outside the base directory
\* makes beginFile return PathTraversal, leaves no file open, creates no file
\* and creates no directory.
C1_PathContainment ==
  /\ \A f \in fsFiles : StrictlyInside(f)
  /\ m_file.open => StrictlyInside(m_file.path) /\ m_file.path \in fsFiles
  /\ (WellFormed("FileInfo") /\ Escapes(evTarget)) =>
        /\ wcalls = <<[op |-> "beginFile", arg |-> ev.arg, res |-> "PathTraversal"]>>
        /\ ~m_file.open
        /\ evNewDirs = {}

C1_Witness ==
  /\ WellFormed("FileInfo")
  /\ evTarget = Path(TRUE, <<"x">>)
  /\ wcalls[1].res = "PathTraversal"
  /\ ~m_file.open
  /\ fsFiles = {}
  /\ fsDirs = {Root, BaseDir.comps}

\* C2: a well-formed FileDone{s} that arrives while a file is being received
\* calls finishFile(s) once; when that call returns true and the
\* acknowledgement callback is set, exactly one Ack with offset s is sent.
C2_AckOnSuccess ==
  (WellFormed("FileDone") /\ ev.infoBefore = "ok") =>
     /\ Len(wcalls) = 1
     /\ wcalls[1].op = "finishFile"
     /\ wcalls[1].arg = ev.arg
     /\ (wcalls[1].res /\ m_sendAckSet) => evOut = <<[type |-> "Ack", offset |-> ev.arg]>>

C2_Witness ==
  /\ WellFormed("FileDone")
  /\ ev.infoBefore = "ok"
  /\ ev.written = MaxSize
  /\ m_expectedSize # MaxSize
  /\ evOut = <<[type |-> "Ack", offset |-> MaxSize]>>

\* C3: a FileDone{s} that arrives when the data written since the last
\* successful beginFile does not add up to s sends nothing: no Ack and no
\* Error.
C3_NoAckOnMismatch ==
  (ev.kind = "FileDone" /\ ev.written # ev.arg) => evOut = <<>>

C3_Witness ==
  /\ WellFormed("FileDone")
  /\ ev.infoBefore = "ok"
  /\ m_sendAckSet
  /\ ev.written > ev.arg
  /\ wcalls = <<[op |-> "finishFile", arg |-> ev.arg, res |-> FALSE]>>
  /\ evOut = <<>>

\* C4: after a FileInfo whose beginFile failed and until the next FileInfo,
\* a FileChunk or FileDone calls nothing on the writer and sends nothing.
C4_RejectedDrops ==
  (ev.infoBefore = "err" /\ ev.kind \in {"FileChunk", "FileDone"}) =>
     wcalls = <<>> /\ evOut = <<>>

C4_Witness ==
  /\ WellFormed("FileDone")
  /\ ev.infoBefore = "err"
  /\ ev.written = ev.arg
  /\ m_sendAckSet
  /\ wcalls = <<>>
  /\ evOut = <<>>

\* C5: a well-formed FileInfo calls beginFile exactly once and leaves
\* m_rejected true exactly when that call returned an error; no other event
\* changes m_rejected.
C5_RejectedTracksBegin ==
  /\ WellFormed("FileInfo") =>
        /\ Len(wcalls) = 1
        /\ wcalls[1].op = "beginFile"
        /\ wcalls[1].arg = ev.arg
        /\ m_rejected <=> (wcalls[1].res # "ok")
  /\ ev.kind # "FileInfo" => m_rejected = ev.rejected

C5_Witness ==
  /\ WellFormed("FileInfo")
  /\ ev.rejected
  /\ wcalls[1].res = "ok"
  /\ ~m_rejected

(***************************************************************************)
(* Wire format: big-endian integers, packets and frames.  A byte is a      *)
(* number in 0..255, a buffer a sequence of bytes.                         *)
(***************************************************************************)
HEADER_SIZE == 10
MAX_STRING_LENGTH == 4096
MAX_CHUNK_SIZE == 10485760

\* writeBigEndian<T>: the width bytes of v, most significant first
RECURSIVE WriteBigEndian(_, _)
WriteBigEndian(v, width) ==
  IF width = 0 THEN <<>>
  ELSE WriteBigEndian(v \div 256, width - 1) \o <<v % 256>>

\* readBigEndian<T>: the number in the width bytes of buf that start at index at.
\* A number of 2^31 or more stands as 2^31 - 1: it is only ever compared with
\* buffer sizes and limits, all smaller.
RECURSIVE ReadBigEndianFrom(_, _, _, _)
ReadBigEndianFrom(buf, at, width, acc) ==
  IF width = 0 THEN acc
  ELSE IF acc >= 8388608 THEN 2147483647
  ELSE ReadBigEndianFrom(buf, at + 1, width - 1, acc * 256 + buf[at])

ReadBigEndian(buf, at, width) == ReadBigEndianFrom(buf, at, width, 0)

\* enum class PacketType
PacketType(name) ==
  CASE name = "Handshake" -> 0
    [] name = "FileInfo" -> 1
    [] name = "FileChunk" -> 2
    [] name = "FileDone" -> 3
    [] name = "Error" -> 4
    [] name = "Ack" -> 5

\* a frame before it is put on the wire: its type code and its payload bytes
Frame(type, payload) == [type |-> type, payload |-> payload]

\* Ack::serialize, FileDone::serialize, FileInfo::serialize, FileChunk::serialize,
\* Error::serialize, each as the frame buildFrame makes of the packet
AckFrame(offset) == Frame(PacketType("Ack"), WriteBigEndian(offset, 8))

FileDoneFrame(fileSize) == Frame(PacketType("FileDone"), WriteBigEndian(fileSize, 8))

FileInfoFrame(fileName, fileSize) ==
  Frame(PacketType("FileInfo"),
        WriteBigEndian(fileSize, 8) \o WriteBigEndian(Len(fileName), 4) \o fileName)

FileChunkFrame(offset, data) ==
  Frame(PacketType("FileChunk"),
        WriteBigEndian(offset, 8) \o WriteBigEndian(Len(data), 4) \o data)

ErrorFrame(code, message) ==
  Frame(PacketType("Error"),
        WriteBigEndian(code, 2) \o WriteBigEndian(Len(message), 4) \o message)

\* buildFrame: length (8 bytes), type (2 bytes), payload
BuildFrame(f) ==
  WriteBigEndian(Len(f.payload), 8) \o WriteBigEndian(f.type, 2) \o f.payload

\* parseFrame(const std::vector<uint8_t>&): ok is false where the code throws
ParseFrame(buffer) ==
  IF Len(buffer) < HEADER_SIZE
    THEN [ok |-> FALSE, size |-> 0, type |-> 0, payload_view |-> <<>>]
  ELSE LET payloadLen == ReadBigEndian(buffer, 1, 8) IN
       IF Len(buffer) - HEADER_SIZE < payloadLen
         THEN [ok |-> FALSE, size |-> 0, type |-> 0, payload_view |-> <<>>]
       ELSE [ok |-> TRUE,
             size |-> payloadLen,
             type |-> ReadBigEndian(buffer, 9, 2),
             payload_view |-> SubSeq(buffer, HEADER_SIZE + 1, HEADER_SIZE + payloadLen)]

\* what a deserialize call throws, by the condition that fails: the payload is
\* shorter than the fixed header ("... payload too small"), a declared length
\* is above the maximum of the kind ("filename too long", "message length
\* unreasonable", "size unreasonable"), or a declared length is above the
\* bytes that remain ("corrupted name length", "declared length exceeds
\* buffer", "corrupted length")
NoError == "none"
TooSmall == "TooSmall"
TooLong == "TooLong"
Truncated == "Truncated"

\* Ack::deserialize and FileDone::deserialize: one 8-byte number
DeserializeU64(buf, size) ==
  IF size < 8 THEN [ok |-> FALSE, error |-> TooSmall, value |-> 0]
  ELSE [ok |-> TRUE, error |-> NoError, value |-> ReadBigEndian(buf, 1, 8)]

\* FileInfo::deserialize
DeserializeFileInfo(buf, size) ==
  IF size < 12 THEN [ok |-> FALSE, error |-> TooSmall, fileSize |-> 0, fileName |-> <<>>]
  ELSE LET nameLen == ReadBigEndian(buf, 9, 4) IN
       IF nameLen > MAX_STRING_LENGTH
         THEN [ok |-> FALSE, error |-> TooLong, fileSize |-> 0, fileName |-> <<>>]
       ELSE IF size - 12 < nameLen
         THEN [ok |-> FALSE, error |-> Truncated, fileSize |-> 0, fileName |-> <<>>]
       ELSE [ok |-> TRUE, error |-> NoError, fileSize |-> ReadBigEndian(buf, 1, 8),
             fileName |-> SubSeq(buf, 13, 12 + nameLen)]

\* FileChunk::deserialize
DeserializeFileChunk(buf, size) ==
  IF size < 12 THEN [ok |-> FALSE, error |-> TooSmall, offset |-> 0, data |-> <<>>]
  ELSE LET dataLen == ReadBigEndian(buf, 9, 4) IN
       IF dataLen > MAX_CHUNK_SIZE
         THEN [ok |-> FALSE, error |-> TooLong, offset |-> 0, data |-> <<>>]
       ELSE IF size - 12 < dataLen
         THEN [ok |-> FALSE, error |-> Truncated, offset |-> 0, data |-> <<>>]
       ELSE [ok |-> TRUE, error |-> NoError, offset |-> ReadBigEndian(buf, 1, 8),
             data |-> SubSeq(buf, 13, 12 + dataLen)]

\* variant of Error::deserialize without the check against the maximum
DeserializeErrorUnbounded(buf, size) ==
  IF size < 6 THEN [ok |-> FALSE, error |-> TooSmall, code |-> 0, message |-> <<>>]
  ELSE LET msgLen == ReadBigEndian(buf, 3, 4) IN
       IF size - 6 < msgLen
         THEN [ok |-> FALSE, error |-> Truncated, code |-> 0, message |-> <<>>]
       ELSE [ok |-> TRUE, error |-> NoError, code |-> ReadBigEndian(buf, 1, 2),
             message |-> SubSeq(buf, 7, 6 + msgLen)]

\* Error::deserialize
DeserializeError(buf, size) ==
  IF size < 6 THEN [ok |-> FALSE, error |-> TooSmall, code |-> 0, message |-> <<>>]
  ELSE LET msgLen == ReadBigEndian(buf, 3, 4) IN
       IF msgLen > MAX_STRING_LENGTH
         THEN [ok |-> FALSE, error |-> TooLong, code |-> 0, message |-> <<>>]
       ELSE IF size - 6 < msgLen
         THEN [ok |-> FALSE, error |-> Truncated, code |-> 0, message |-> <<>>]
       ELSE [ok |-> TRUE, error |-> NoError, code |-> ReadBigEndian(buf, 1, 2),
             message |-> SubSeq(buf, 7, 6 + msgLen)]

\* Handshake::serialize
HandshakeFrame(protocolVersion, capabilities) ==
  Frame(PacketType("Handshake"),
        WriteBigEndian(protocolVersion, 2) \o WriteBigEndian(capabilities, 4))

(***************************************************************************)
(* Connection, read side: doRead, processBuffer, dispatchPacket.           *)
(***************************************************************************)
kTempBufferSize == 8192
kMaxPayloadSize == 1073741824
MaxStreamFrames == 2
MaxBeforeOversize == 1   \* frames ahead of an oversize header

\* variant of tryParseFrame that takes everything behind the header as payload
TryParseFrameWholeRest(size, known) ==
  LET none == [ok |-> FALSE, type |-> 0, size |-> 0, payload |-> <<>>] IN
  IF size < HEADER_SIZE THEN none
  ELSE LET payloadLen == ReadBigEndian(known, 1, 8) IN
       IF payloadLen > kMaxPayloadSize THEN none
       ELSE IF size < HEADER_SIZE + payloadLen THEN none
       ELSE [ok |-> TRUE, type |-> ReadBigEndian(known, 9, 2), size |-> size - HEADER_SIZE,
             payload |-> SubSeq(known, HEADER_SIZE + 1, Len(known))]

\* variant of tryParseFrame that refuses a declared length of kMaxPayloadSize
TryParseFrameBelowMax(size, known) ==
  LET none == [ok |-> FALSE, type |-> 0, size |-> 0, payload |-> <<>>] IN
  IF size < HEADER_SIZE THEN none
  ELSE LET payloadLen == ReadBigEndian(known, 1, 8) IN
       IF payloadLen >= kMaxPayloadSize THEN none
       ELSE IF size < HEADER_SIZE + payloadLen THEN none
       ELSE [ok |-> TRUE, type |-> ReadBigEndian(known, 9, 2), size |-> payloadLen,
             payload |-> SubSeq(known, HEADER_SIZE + 1,
                                Min(HEADER_SIZE + payloadLen, Len(known)))]

\* tryParseFrame on a buffer of size bytes, of which the first are known
\* (all of them unless the buffer is too large to write out): no frame for a
\* short buffer or a declared length above kMaxPayloadSize; the payload is a
\* view of payloadLen bytes behind the header, given by its length and its
\* known bytes
TryParseFrameAt(size, known) ==
  LET none == [ok |-> FALSE, type |-> 0, size |-> 0, payload |-> <<>>] IN
  IF size < HEADER_SIZE THEN none
  ELSE LET payloadLen == ReadBigEndian(known, 1, 8) IN
       IF payloadLen > kMaxPayloadSize THEN none
       ELSE IF size < HEADER_SIZE + payloadLen THEN none
       ELSE [ok |-> TRUE, type |-> ReadBigEndian(known, 9, 2), size |-> payloadLen,
             payload |-> SubSeq(known, HEADER_SIZE + 1,
                                Min(HEADER_SIZE + payloadLen, Len(known)))]

\* tryParseFrame on a buffer that is written out
TryParseFrame(buffer) == TryParseFrameAt(Len(buffer), buffer)

\* the messages of the runtime_error parseFrame throws, each under the name
\* of the failure it reports
IncompleteHeader == "Incomplete Frame Header"
PayloadTooLarge == "Payload length unreasonable (possible attack)"
IncompleteBody == "Incomplete Frame Body"

\* variant of parseFrame that tests the body before the declared length
ParseFrameBodyFirst(size, known) ==
  LET fail(error) == [ok |-> FALSE, error |-> error, frame |-> TryParseFrameAt(0, <<>>)] IN
  IF size < HEADER_SIZE THEN fail(IncompleteHeader)
  ELSE LET payloadLen == ReadBigEndian(known, 1, 8)
           frame == TryParseFrameAt(size, known)
       IN IF frame.ok THEN [ok |-> TRUE, error |-> "", frame |-> frame]
          ELSE IF size - HEADER_SIZE < payloadLen THEN fail(IncompleteBody)
          ELSE fail(PayloadTooLarge)

\* parseFrame(std::span<const uint8_t>): error is the message of the
\* runtime_error thrown
ParseFrameSpan(size, known) ==
  LET fail(error) == [ok |-> FALSE, error |-> error, frame |-> TryParseFrameAt(0, <<>>)] IN
  IF size < HEADER_SIZE THEN fail(IncompleteHeader)
  ELSE LET payloadLen == ReadBigEndian(known, 1, 8) IN
       IF payloadLen > kMaxPayloadSize THEN fail(PayloadTooLarge)
       ELSE LET frame == TryParseFrameAt(size, known) IN
            IF frame.ok THEN [ok |-> TRUE, error |-> "", frame |-> frame]
            ELSE fail(IncompleteBody)

\* a header that declares one byte more than kMaxPayloadSize, and one byte
OversizeBytes ==
  WriteBigEndian(kMaxPayloadSize + 1, 8) \o WriteBigEndian(PacketType("FileChunk"), 2) \o <<7>>

\* a complete header at the front of the buffer declares more than kMaxPayloadSize
OversizeAtFront(buffer) ==
  Len(buffer) >= HEADER_SIZE /\ ReadBigEndian(buffer, 1, 8) > kMaxPayloadSize

\* frames made by buildFrame from a packet
WellFormedFrames ==
  { AckFrame(1), FileDoneFrame(0), FileDoneFrame(1), FileInfoFrame(<<97>>, 1),
    FileChunkFrame(0, <<7>>), ErrorFrame(1, <<>>), HandshakeFrame(1, 0) }

\* frames whose payload is too short for their type
ShortFrames ==
  { Frame(PacketType("Ack"), <<>>), Frame(PacketType("FileChunk"), <<0>>) }

PeerFrames == WellFormedFrames \cup ShortFrames

RECURSIVE Flatten(_)
Flatten(frames) ==
  IF frames = <<>> THEN <<>> ELSE BuildFrame(Head(frames)) \o Flatten(Tail(frames))

\* dispatchPacket with the file state passed in and out; threw: an exception
\* left the function; out: the frames handed to send
DispatchPacket(view, open, received, canOpen) ==
  LET same == [threw |-> FALSE, open |-> open, received |-> received, out |-> <<>>]
      fault == [same EXCEPT !.threw = TRUE]
  IN CASE view.type = PacketType("Ack") ->
            IF DeserializeU64(view.payload_view, view.size).ok THEN same ELSE fault
       [] view.type = PacketType("FileInfo") ->
            IF ~DeserializeFileInfo(view.payload_view, view.size).ok THEN fault
            ELSE IF ~(open \/ canOpen) THEN same
            ELSE [same EXCEPT !.open = TRUE, !.received = 0]
       [] view.type = PacketType("FileChunk") ->
            IF ~open THEN same
            ELSE LET pkt == DeserializeFileChunk(view.payload_view, view.size) IN
                 IF ~pkt.ok THEN fault
                 ELSE [same EXCEPT !.received = received + Len(pkt.data)]
       [] view.type = PacketType("FileDone") ->
            LET pkt == DeserializeU64(view.payload_view, view.size) IN
            IF ~pkt.ok THEN fault
            ELSE [threw |-> FALSE, open |-> FALSE, received |-> received,
                  out |-> IF received = pkt.value
                            THEN <<BuildFrame(AckFrame(received))>> ELSE <<>>]
       [] view.type = PacketType("Error") ->
            IF DeserializeError(view.payload_view, view.size).ok THEN same ELSE fault
       [] OTHER -> same

\* variant of the frame size that forgets the header
PayloadSizeOnly(view) == view.size

\* totalFrameSize in processBuffer
TotalFrameSize(view) == HEADER_SIZE + view.size

\* processBuffer on c = [buffer, open, received, delivered, faulted, out]
RECURSIVE ProcessBuffer(_)
ProcessBuffer(c) ==
  LET view == ParseFrame(c.buffer) IN
  IF ~view.ok THEN c
  ELSE LET d == DispatchPacket(view, c.open, c.received, openOk) IN
       IF d.threw THEN [c EXCEPT !.faulted = TRUE]
       ELSE LET rest == SubSeq(c.buffer, TotalFrameSize(view) + 1, Len(c.buffer))
                after == [buffer |-> rest, open |-> d.open, received |-> d.received,
                          delivered |-> Append(c.delivered,
                                               Frame(view.type, view.payload_view)),
                          faulted |-> c.faulted, out |-> c.out \o d.out]
            IN IF rest = <<>> THEN after ELSE ProcessBuffer(after)

\* the completion handler of async_read_some without error: length bytes arrived
OnRead ==
  /\ reading
  /\ rd_stream # <<>>
  /\ \E length \in 1..Min(kTempBufferSize, Len(rd_stream)) :
     \E c \in {ProcessBuffer([buffer |-> m_incomingBuffer \o SubSeq(rd_stream, 1, length),
                               open |-> m_outFileOpen, received |-> m_receivedBytes,
                               delivered |-> delivered, faulted |-> faulted, out |-> <<>>])} :
          /\ rd_stream' = SubSeq(rd_stream, length + 1, Len(rd_stream))
          /\ m_incomingBuffer' = c.buffer
          /\ m_outFileOpen' = c.open
          /\ m_receivedBytes' = c.received
          /\ delivered' = c.delivered
          /\ faulted' = c.faulted
          /\ posted' = posted \o c.out
  /\ UNCHANGED <<rd_frames, reading, openOk, recvVars, otherVars, writeVars, sendVars>>

\* the completion handler with an error code: doRead is not armed again
OnReadError ==
  /\ reading
  /\ reading' = FALSE
  /\ UNCHANGED <<rd_frames, rd_stream, openOk, m_incomingBuffer, m_outFileOpen,
                 m_receivedBytes, delivered, faulted, posted, recvVars, otherVars, writeVars,
                 sendVars>>

ReadInit ==
  /\ RecvInit(0, [names |-> {}, sizes |-> {}, faults |-> {}])
  /\ FileIdle
  /\ QueueIdle
  /\ SessionIdle
  /\ TransferIdle /\ OrchIdle
  /\ E2eIdle
  /\ CallIdle
  /\ m_sendAckSet = FALSE
  /\ rd_frames \in SeqsUpTo(PeerFrames, MaxStreamFrames)
  /\ rd_tail \in (IF Len(rd_frames) <= MaxBeforeOversize THEN {<<>>, OversizeBytes}
                  ELSE {<<>>})
  /\ openOk \in BOOLEAN
  /\ rd_stream = Flatten(rd_frames) \o rd_tail
  /\ reading = TRUE
  /\ m_incomingBuffer = <<>>
  /\ m_outFileOpen = FALSE
  /\ m_receivedBytes = 0
  /\ delivered = <<>>
  /\ faulted = FALSE
  /\ posted = <<>>
  /\ WriteIdle
  /\ SendIdle

NextRead == OnRead \/ OnReadError

SpecRead == ReadInit /\ [][NextRead]_vars

(***************************************************************************)
(* Connection, write side: send, doWrite, writeQueueFront.                 *)
(***************************************************************************)
MaxSends == 3

\* Connection::send: the frame is built on the calling thread and its doWrite
\* is posted to the executor, which runs posted handlers in post order
Send(frame) ==
  /\ sendsLeft > 0
  /\ sendsLeft' = sendsLeft - 1
  /\ posted' = Append(posted, BuildFrame(frame))
  /\ UNCHANGED <<m_writeQueue, m_queueSize, socketOpen, inFlight, wire, enqueued, failedAt>>

\* send called by the thread that runs sendFile
SendFromSender ==
  /\ \E frame \in {FileChunkFrame(0, <<7>>), FileDoneFrame(1)} : Send(frame)
  /\ UNCHANGED <<recvVars, otherVars, rd_frames, rd_stream, reading, openOk, m_incomingBuffer,
                 m_outFileOpen, m_receivedBytes, delivered, faulted, sendVars>>

\* send(ack) called by dispatchPacket on the executor thread
SendFromDispatch ==
  /\ Send(AckFrame(1))
  /\ UNCHANGED <<recvVars, otherVars, rd_frames, rd_stream, reading, openOk, m_incomingBuffer,
                 m_outFileOpen, m_receivedBytes, delivered, faulted, sendVars>>

\* variant of the doWrite test that starts a write for every frame
AlwaysStart(queue) == TRUE

\* doWrite starts a write unless m_writeQueue.size() > 1
StartsWrite(queue) == ~(Len(queue) > 1)

\* the executor runs the oldest posted handler: doWrite(frame)
DoWrite ==
  /\ posted # <<>>
  /\ LET frame == Head(posted)
         queue == Append(m_writeQueue, frame)
     IN /\ posted' = Tail(posted)
        /\ m_queueSize' = m_queueSize + Len(frame)
        /\ m_writeQueue' = queue
        /\ enqueued' = Append(enqueued, frame)
        /\ inFlight' = IF StartsWrite(queue) THEN Append(inFlight, Head(queue))
                       ELSE inFlight
  /\ UNCHANGED <<socketOpen, wire, sendsLeft, failedAt>>
  /\ UNCHANGED <<recvVars, otherVars, rd_frames, rd_stream, reading, openOk, m_incomingBuffer,
                 m_outFileOpen, m_receivedBytes, delivered, faulted, sendVars>>

\* the completion handler of async_write without error
OnWritten ==
  /\ socketOpen
  /\ \E i \in 1..Len(inFlight) :
       LET rest == [j \in 1..(Len(inFlight) - 1) |->
                      IF j < i THEN inFlight[j] ELSE inFlight[j + 1]]
           queue == Tail(m_writeQueue)
       IN /\ wire' = wire \o inFlight[i]
          /\ m_queueSize' = m_queueSize - Len(Head(m_writeQueue))
          /\ m_writeQueue' = queue
          /\ inFlight' = IF queue # <<>> THEN Append(rest, Head(queue)) ELSE rest
  /\ UNCHANGED <<socketOpen, enqueued, sendsLeft, posted, failedAt>>
  /\ UNCHANGED <<recvVars, otherVars, rd_frames, rd_stream, reading, openOk, m_incomingBuffer,
                 m_outFileOpen, m_receivedBytes, delivered, faulted, sendVars>>

\* variant of the error branch that drops the failed frame
QueuePoppedAfterError(queue) == Tail(queue)

\* the error branch of the completion handler leaves m_writeQueue as it is
QueueAfterError(queue) == queue

\* the completion handler with an error code, after the socket took the
\* first sent bytes of the buffer: the socket is closed, the queue is left
OnWriteError ==
  /\ \E i \in 1..Len(inFlight) :
       \E sent \in 0..(Len(inFlight[i]) - 1) :
         /\ wire' = wire \o SubSeq(inFlight[i], 1, IF socketOpen THEN sent ELSE 0)
         /\ inFlight' = [j \in 1..(Len(inFlight) - 1) |->
                           IF j < i THEN inFlight[j] ELSE inFlight[j + 1]]
  /\ socketOpen' = FALSE
  /\ m_writeQueue' = QueueAfterError(m_writeQueue)
  /\ failedAt' = Len(enqueued)
  /\ UNCHANGED <<m_queueSize, enqueued, sendsLeft, posted>>
  /\ UNCHANGED <<recvVars, otherVars, rd_frames, rd_stream, reading, openOk, m_incomingBuffer,
                 m_outFileOpen, m_receivedBytes, delivered, faulted, sendVars>>

WriteInit ==
  /\ RecvInit(0, [names |-> {}, sizes |-> {}, faults |-> {}])
  /\ OtherIdle
  /\ m_sendAckSet = FALSE
  /\ rd_frames = <<>>
  /\ rd_stream = <<>>
  /\ reading = TRUE
  /\ openOk = TRUE
  /\ m_incomingBuffer = <<>>
  /\ m_outFileOpen = FALSE
  /\ m_receivedBytes = 0
  /\ delivered = <<>>
  /\ faulted = FALSE
  /\ posted = <<>>
  /\ m_writeQueue = <<>>
  /\ m_queueSize = 0
  /\ socketOpen = TRUE
  /\ inFlight = <<>>
  /\ wire = <<>>
  /\ enqueued = <<>>
  /\ sendsLeft = MaxSends
  /\ failedAt = -1
  /\ SendIdle

NextWrite == SendFromSender \/ SendFromDispatch \/ DoWrite \/ OnWritten \/ OnWriteError

SpecWrite == WriteInit /\ [][NextWrite]_vars

(***************************************************************************)
(* Properties of the read side.                                            *)
(***************************************************************************)
AllWellFormed ==
  rd_tail = <<>> /\ \A i \in 1..Len(rd_frames) : rd_frames[i] \in WellFormedFrames

\* C6: for a stream of frames built by buildFrame, however it is cut into
\* reads, the frames handled so far are the first frames of the stream, each
\* once and in order, none raised an exception, the handled frames' bytes
\* followed by the buffer are exactly the bytes read, no complete frame waits
\* in the buffer, and once the stream is read every frame is handled and the
\* buffer is empty.
C6_FramesInOrder ==
  AllWellFormed =>
    /\ IsPrefix(delivered, rd_frames)
    /\ ~faulted
    /\ Flatten(delivered) \o m_incomingBuffer \o rd_stream = Flatten(rd_frames)
    /\ ~ParseFrame(m_incomingBuffer).ok
    /\ rd_stream = <<>> => (delivered = rd_frames /\ m_incomingBuffer = <<>>)

C6_Witness ==
  /\ AllWellFormed
  /\ rd_frames = <<FileInfoFrame(<<97>>, 1), FileDoneFrame(0)>>
  /\ rd_stream = <<>>
  /\ delivered = rd_frames
  /\ posted = <<BuildFrame(AckFrame(0))>>

\* C7 as the specification states it: a frame whose handling raises an
\* exception is still removed, so after a read no complete frame is left at
\* the front of the buffer.
C7_FaultyFrameRemoved == ~ParseFrame(m_incomingBuffer).ok

\* what the code does instead: the frame that raised stays at the front of
\* the buffer and the frame behind it is never handled
C7_Stalled ==
  /\ rd_frames = <<Frame(PacketType("Ack"), <<>>), AckFrame(1)>>
  /\ rd_stream = <<>>
  /\ faulted
  /\ delivered = <<>>
  /\ m_incomingBuffer = Flatten(rd_frames)

(***************************************************************************)
(* Properties of the write side.                                           *)
(***************************************************************************)
RECURSIVE Concat(_)
Concat(buffers) ==
  IF buffers = <<>> THEN <<>> ELSE Head(buffers) \o Concat(Tail(buffers))

\* C8: at most one async_write is outstanding; the bytes on the wire are the
\* leading bytes of the frames concatenated in the order their doWrite ran,
\* and they are all of them once nothing is queued and no write has failed.
C8_OneWriteInOrder ==
  /\ Len(inFlight) <= 1
  /\ IsPrefix(wire, Concat(enqueued))
  /\ inFlight # <<>> => inFlight[1] = Head(m_writeQueue)
  /\ (socketOpen /\ m_writeQueue = <<>>) => (wire = Concat(enqueued) /\ inFlight = <<>>)
  /\ socketOpen => wire \o Concat(m_writeQueue) = Concat(enqueued)

C8_Witness ==
  /\ socketOpen
  /\ sendsLeft = 0
  /\ posted = <<>>
  /\ m_writeQueue = <<>>
  /\ enqueued = <<BuildFrame(FileChunkFrame(0, <<7>>)), BuildFrame(AckFrame(1)),
                  BuildFrame(FileDoneFrame(1))>>
  /\ wire = Concat(enqueued)

(***************************************************************************)
(* sendFile(ISender&, localPath, remoteName), one statement group per       *)
(* action.  A chunk is [offset, len]: the bytes offset..offset+len-1 of    *)
(* the file.                                                               *)
(***************************************************************************)
kDefaultChunkSize == 4096
MaxFileChunks == 2
MaxSendName == 2
MaxCongested == 2

\* std::replace(nameToSend.begin(), nameToSend.end(), '\\', '/')
ReplaceBackslash(name) == [i \in 1..Len(name) |-> IF name[i] = "\\" THEN "/" ELSE name[i]]

\* variant of the wait loop that sleeps once and goes on
LeavesWaitAnyway(isCongested) == TRUE

\* while (sender.isCongested()) is left when the call returns false
LeavesWait(isCongested) == ~isCongested

\* variant of the chunk length that reads one byte less than a full chunk
ShortRead(remaining) == Min(kDefaultChunkSize - 1, remaining)

\* file.read(..., kDefaultChunkSize) and file.gcount() with remaining bytes left
BytesRead(remaining) == Min(kDefaultChunkSize, remaining)

sendIdleRest == <<recvVars, readVars, writeVars, otherVars, sf_local, sf_remoteName>>

\* sender.send(packet)
Emit(packet) ==
  /\ emitted' = Append(emitted, packet)
  /\ emitPolls' = Append(emitPolls, polls)
  /\ polls' = NoPolls

\* lines 31-44: the exists test, file_size and the name
SendFileEnter ==
  /\ sf_pc = "enter"
  /\ IF ~sf_local.exists
       THEN /\ sf_pc' = "finished"
            /\ UNCHANGED <<sf_fileSize, sf_nameToSend>>
       ELSE /\ sf_pc' = "handshake"
            /\ sf_fileSize' = sf_local.size
            /\ sf_nameToSend' = ReplaceBackslash(IF sf_remoteName = <<>>
                                                   THEN sf_local.filename
                                                   ELSE sf_remoteName)
  /\ UNCHANGED <<sf_offset, sf_filePos, sf_fileGood, emitted, emitPolls, polls,
                 congestedRun, sendIdleRest>>

\* lines 50-51
SendHandshake ==
  /\ sf_pc = "handshake"
  /\ Emit([type |-> "Handshake", protocolVersion |-> kCurrentVersion, capabilities |-> 0])
  /\ sf_pc' = "info"
  /\ UNCHANGED <<sf_fileSize, sf_nameToSend, sf_offset, sf_filePos, sf_fileGood,
                 congestedRun, sendIdleRest>>

\* lines 54-61: FileInfo is sent, then the file is opened
SendFileInfo ==
  /\ sf_pc = "info"
  /\ Emit([type |-> "FileInfo", fileName |-> sf_nameToSend, fileSize |-> sf_fileSize])
  /\ sf_fileGood' = sf_local.opens
  /\ sf_offset' = 0
  /\ sf_filePos' = 0
  /\ sf_pc' = "while"
  /\ UNCHANGED <<sf_fileSize, sf_nameToSend, congestedRun, sendIdleRest>>

\* line 63: while (file)
WhileFile ==
  /\ sf_pc = "while"
  /\ sf_pc' = IF sf_fileGood THEN "congested" ELSE "done"
  /\ UNCHANGED <<sf_fileSize, sf_nameToSend, sf_offset, sf_filePos, sf_fileGood,
                 emitted, emitPolls, polls, congestedRun, sendIdleRest>>

\* lines 65-67: one isCongested call; true sleeps and calls again; answers:
\* what the call can return
PollCongestedOf(answers) ==
  /\ sf_pc = "congested"
  /\ \E isCongested \in answers :
       /\ isCongested => congestedRun < MaxCongested
       /\ polls' = [count |-> polls.count + 1, last |-> isCongested]
       /\ congestedRun' = IF isCongested THEN congestedRun + 1 ELSE 0
       /\ sf_pc' = IF LeavesWait(isCongested) THEN "read" ELSE "congested"
  /\ UNCHANGED <<sf_fileSize, sf_nameToSend, sf_offset, sf_filePos, sf_fileGood,
                 emitted, emitPolls, sendIdleRest>>

\* the sender's connection is not modelled: the call returns either value
PollCongested == PollCongestedOf(BOOLEAN)

\* lines 69-84: read up to kDefaultChunkSize bytes, stop on none, else send
ReadChunk ==
  /\ sf_pc = "read"
  /\ LET bytesRead == BytesRead(sf_local.size - sf_filePos) IN
       /\ sf_filePos' = sf_filePos + bytesRead
       /\ sf_fileGood' = (bytesRead = kDefaultChunkSize)
       /\ IF bytesRead = 0
            THEN /\ sf_pc' = "done"
                 /\ UNCHANGED <<sf_offset, emitted, emitPolls, polls>>
            ELSE /\ Emit([type |-> "FileChunk", offset |-> sf_offset, len |-> bytesRead])
                 /\ sf_offset' = sf_offset + bytesRead
                 /\ sf_pc' = "while"
  /\ UNCHANGED <<sf_fileSize, sf_nameToSend, congestedRun, sendIdleRest>>

\* lines 88-90
SendFileDone ==
  /\ sf_pc = "done"
  /\ Emit([type |-> "FileDone", fileSize |-> sf_fileSize])
  /\ sf_pc' = "finished"
  /\ UNCHANGED <<sf_fileSize, sf_nameToSend, sf_offset, sf_filePos, sf_fileGood,
                 congestedRun, sendIdleRest>>

FileSizes ==
  {k * kDefaultChunkSize + d : k \in 0..MaxFileChunks, d \in {0, 1, kDefaultChunkSize - 1}}

LocalFiles ==
  [exists : BOOLEAN, size : FileSizes, opens : BOOLEAN,
   filename : SeqsUpTo({"a", "\\"}, MaxSendName) \ {<<>>}]

SendInit ==
  /\ RecvInit(0, [names |-> {}, sizes |-> {}, faults |-> {}])
  /\ OtherIdle
  /\ m_sendAckSet = FALSE
  /\ ReadIdle
  /\ WriteIdle
  /\ sf_local \in LocalFiles
  /\ sf_remoteName \in SeqsUpTo({"b", "\\"}, MaxSendName)
  /\ sf_pc = "enter"
  /\ sf_fileSize = 0
  /\ sf_nameToSend = <<>>
  /\ sf_offset = 0
  /\ sf_filePos = 0
  /\ sf_fileGood = FALSE
  /\ emitted = <<>>
  /\ emitPolls = <<>>
  /\ polls = NoPolls
  /\ congestedRun = 0

NextSend ==
  \/ SendFileEnter
  \/ SendHandshake
  \/ SendFileInfo
  \/ WhileFile
  \/ PollCongested
  \/ ReadChunk
  \/ SendFileDone

SpecSend == SendInit /\ [][NextSend]_vars

(***************************************************************************)
(* Properties of sendFile.                                                 *)
(***************************************************************************)
Emitted(i, type) == emitted[i].type = type

\* the file is read to its end by a read that returns no byte
EndsOnEmptyRead == sf_local.opens /\ sf_fileSize % kDefaultChunkSize = 0

\* C9 as amended: a FileChunk is sent only after an isCongested call since the
\* previous send returned false, and while the last call returned true
\* sendFile stays in the wait loop; Handshake and FileInfo are sent without a
\* call; FileDone is sent without a call when the last read was a short one
\* (or the file did not open), and after a call that returned false when the
\* size is a multiple of the chunk size, zero included.
C9_ChunkAfterClear ==
  /\ \A i \in 1..Len(emitted) :
       /\ Emitted(i, "FileChunk") => (emitPolls[i].count >= 1 /\ ~emitPolls[i].last)
       /\ (Emitted(i, "Handshake") \/ Emitted(i, "FileInfo")) => emitPolls[i].count = 0
       /\ Emitted(i, "FileDone") =>
            IF EndsOnEmptyRead THEN emitPolls[i].count >= 1 /\ ~emitPolls[i].last
            ELSE emitPolls[i].count = 0
  /\ (polls.count > 0 /\ polls.last) => sf_pc = "congested"

C9_Witness ==
  /\ sf_pc = "finished"
  /\ sf_fileSize = kDefaultChunkSize
  /\ Len(emitted) = 4
  /\ Emitted(3, "FileChunk")
  /\ emitPolls[3].count > 1
  /\ Emitted(4, "FileDone")
  /\ emitPolls[4].count > 1
  /\ ~emitPolls[4].last

\* C9 as stated: also FileDone is sent without any isCongested call since the
\* previous send.
C9_DoneWithoutPoll ==
  \A i \in 1..Len(emitted) :
    /\ Emitted(i, "FileChunk") => (emitPolls[i].count >= 1 /\ ~emitPolls[i].last)
    /\ ~Emitted(i, "FileChunk") => emitPolls[i].count = 0

\* the number of chunks of a file of n bytes
ChunkCount(n) == (n + kDefaultChunkSize - 1) \div kDefaultChunkSize

C10_WitnessMissing ==
  /\ sf_pc = "finished"
  /\ ~sf_local.exists
  /\ emitted = <<>>


(***************************************************************************)
(* Writer call order, neutral frames, beginFile outcomes.                  *)
(***************************************************************************)
\* C18 as stated: the receiver calls writeChunk only while a file is open,
\* that is after a successful beginFile and before the following finishFile.
C18_ChunkCallOnlyWhileOpen ==
  (ev.kind = "FileChunk" /\ wcalls # <<>>) => ev.open

\* C18: a well-formed FileChunk reaches writeChunk in every state but
\* Rejected; the call succeeds and adds to the bytes written only after a
\* successful beginFile and before the following finishFile; otherwise the
\* writer answers NotOpen, writes nothing and stays closed.
C18_ChunkWrittenOnlyWhileOpen ==
  WellFormed("FileChunk") =>
     /\ wcalls = (IF ev.rejected THEN <<>>
                  ELSE <<[op |-> "writeChunk", arg |-> ev.len,
                          res |-> IF ev.open THEN "ok" ELSE "NotOpen"]>>)
     /\ (ev.open /\ ~ev.rejected) => ev.infoBefore = "ok" /\ chunkSum = ev.written + ev.len
     /\ ~(ev.open /\ ~ev.rejected) => chunkSum = ev.written
     /\ m_file.open = ev.open

C18_Witness ==
  /\ WellFormed("FileChunk")
  /\ ev.infoBefore = "none"
  /\ ~ev.open
  /\ ev.len > 0
  /\ wcalls = <<[op |-> "writeChunk", arg |-> ev.len, res |-> "NotOpen"]>>
  /\ chunkSum = 0

\* C19: in every receiver state a well-formed Handshake of any version, Ack,
\* Error or frame of unknown kind calls nothing on the writer, sends no Ack
\* and leaves m_rejected, the open file and the bytes written as they were.
C19_NeutralFrames ==
  (ev.kind \in {"Handshake", "Ack", "Error", "Unknown"} /\ ~ev.malformed) =>
     /\ wcalls = <<>>
     /\ evOut = <<>>
     /\ m_rejected = ev.rejected
     /\ m_file.open = ev.open
     /\ m_bytesWritten = ev.bytesWritten

C19_Witness ==
  /\ WellFormed("Handshake")
  /\ ev.arg # kCurrentVersion
  /\ ev.open
  /\ ~ev.rejected
  /\ ev.bytesWritten > 0
  /\ m_file.open
  /\ m_bytesWritten = ev.bytesWritten

(***************************************************************************)
(* FileWriter driven directly: any caller, any order of calls, with the    *)
(* content of the files.                                                   *)
(***************************************************************************)
MaxWriterCalls == 3   \* FileWriter calls in one run

\* relative paths of at most two components, each a name or ".."
WriterPaths ==
  {n \in Names : ~n.abs /\ Len(n.comps) <= 2 /\ \A i \in DOMAIN n.comps : n.comps[i] \in {"x", ".."}}

WriterData == {<<7>>, <<7, 8>>}

\* ofstream::seekp(offset) then write(data): a gap past the end reads as zeros
WriteAt(content, offset, data) ==
  LET size == IF data = <<>> THEN Len(content)
              ELSE IF Len(content) > offset + Len(data) THEN Len(content)
              ELSE offset + Len(data)
  IN [i \in 1..size |->
        IF i > offset /\ i <= offset + Len(data) THEN data[i - offset]
        ELSE IF i <= Len(content) THEN content[i]
        ELSE 0]

\* the content of every file after the call: open truncates, write stores
DataAfter(data, file, content) ==
  [f \in (DOMAIN data) \cup {file} |-> IF f = file THEN content ELSE data[f]]

WriterCall(op, arg, r, data) ==
  /\ wr_left > 0
  /\ wr_left' = wr_left - 1
  /\ m_file' = r.w.file
  /\ m_expectedSize' = r.w.expectedSize
  /\ m_bytesWritten' = r.w.bytesWritten
  /\ fsData' = data
  /\ wr_call' = [op |-> op, arg |-> arg, res |-> r.res, file |-> m_file,
                 bytesWritten |-> m_bytesWritten]
  /\ UNCHANGED <<m_rejected, m_sendAckSet, acks, budget, ev, wcalls, evOut, evTarget,
                 evNewDirs, chunkSum, peer, readVars, writeVars, sendVars, rd_tail,
                 queueVars, sessVars, transVars, orchVars, e2eVars, lastCall>>

WriterBeginFile ==
  \E relativePath \in WriterPaths, expectedSize \in {0, MaxSize}, fault \in Faults :
    \E r \in {BeginFile(Writer, relativePath, expectedSize, fsDirs, fsFiles, fault)} :
      /\ WriterCall("beginFile", [path |-> relativePath, size |-> expectedSize], r,
                    IF r.res = "ok" THEN DataAfter(fsData, r.w.file.path, <<>>) ELSE fsData)
      /\ fsDirs' = r.dirs
      /\ fsFiles' = r.files

WriterWriteChunk ==
  \E offset \in 0..1, data \in WriterData :
    \E r \in {WriteChunk(Writer, offset, Len(data))} :
      /\ WriterCall("writeChunk", [offset |-> offset, data |-> data], r,
                    IF r.res = "ok"
                      THEN DataAfter(fsData, m_file.path, WriteAt(fsData[m_file.path], offset, data))
                      ELSE fsData)
      /\ UNCHANGED <<fsDirs, fsFiles>>

WriterFinishFile ==
  \E finalSize \in 0..MaxSize :
    /\ WriterCall("finishFile", finalSize, FinishFile(Writer, finalSize), fsData)
    /\ UNCHANGED <<fsDirs, fsFiles>>

WriterClose ==
  /\ WriterCall("close", 0, [res |-> "ok", w |-> Close(Writer)], fsData)
  /\ UNCHANGED <<fsDirs, fsFiles>>

WriterInit ==
  /\ RecvInit(0, [names |-> {}, sizes |-> {}, faults |-> {}])
  /\ ReadIdle
  /\ WriteIdle
  /\ SendIdle
  /\ ~m_sendAckSet
  /\ rd_tail = <<>>
  /\ QueueIdle
  /\ SessionIdle
  /\ TransferIdle /\ OrchIdle
  /\ E2eIdle
  /\ CallIdle
  /\ fsData = <<>>
  /\ wr_call = NoCall
  /\ wr_left = MaxWriterCalls

NextWriter ==
  \/ WriterBeginFile
  \/ WriterWriteChunk
  \/ WriterFinishFile
  \/ WriterClose

SpecWriter == WriterInit /\ [][NextWriter]_vars

\* C20: whatever its outcome, beginFile leaves the file that was open before
\* closed; on success the writer is open on base_dir / relative_path, that
\* file is empty, bytesWritten is 0 and the expected size is remembered; on
\* PathTraversal, CreateDirFailed and OpenFailed no file is open.
C20_BeginFileOutcomes ==
  wr_call.op = "beginFile" =>
     /\ wr_call.res \in {"ok", "PathTraversal", "CreateDirFailed", "OpenFailed"}
     /\ wr_call.res = "ok" =>
          /\ m_file.open
          /\ m_file.path = LexicallyNormal(PathAppend(BaseDir, wr_call.arg.path)).comps
          /\ m_file.path \in fsFiles
          /\ fsData[m_file.path] = <<>>
          /\ m_bytesWritten = 0
          /\ m_expectedSize = wr_call.arg.size
     /\ wr_call.res # "ok" => ~m_file.open

\* beginFile on a path that holds data, while that file is still open
C20_Witness ==
  /\ wr_call.op = "beginFile"
  /\ wr_call.res = "ok"
  /\ wr_call.file.open
  /\ wr_call.file.path = m_file.path
  /\ wr_call.bytesWritten > 0
  /\ fsData[m_file.path] = <<>>

\* beginFile refused while a file is open
C20_WitnessRefused ==
  /\ wr_call.op = "beginFile"
  /\ wr_call.res = "PathTraversal"
  /\ wr_call.file.open
  /\ ~m_file.open

(***************************************************************************)
(* Read errors and oversize frames on the read side.                       *)
(***************************************************************************)
\* C12 as the specification states it: once a read has completed with an
\* error no read is armed, no further frame is handled and the receiving
\* side has been told to disconnect, so the file it was writing is closed.
C12_ReadErrorClosesWriter ==
  ~reading => ~m_outFileOpen

\* what the code does instead: the read loop has ended in the middle of a
\* file, the rest of the stream is never read and the file stays open
C12_LeftOpen ==
  /\ ~reading
  /\ rd_frames = <<FileInfoFrame(<<97>>, 1), FileChunkFrame(0, <<7>>)>>
  /\ delivered = <<FileInfoFrame(<<97>>, 1)>>
  /\ rd_stream # <<>>
  /\ m_outFileOpen

\* C13 as the specification states it: a complete header at the front of the
\* incoming buffer that declares more than 2^30 payload bytes makes the
\* engine close the connection instead of reading on.
C13_OversizeCloses ==
  OversizeAtFront(m_incomingBuffer) => (~socketOpen /\ ~reading)

\* what the code does instead: neither parser yields a frame, the read loop
\* goes on and the bytes that follow the header pile up in the buffer
C13_KeepsReading ==
  /\ OversizeAtFront(m_incomingBuffer)
  /\ ~ParseFrame(m_incomingBuffer).ok
  /\ ~TryParseFrame(m_incomingBuffer).ok
  /\ Len(m_incomingBuffer) > HEADER_SIZE
  /\ delivered = rd_frames
  /\ Len(rd_frames) = 1
  /\ reading
  /\ socketOpen

(***************************************************************************)
(* Write errors and the queued-byte counter.                               *)
(***************************************************************************)
\* C14: a write that completes with an error closes the socket and is not
\* retried; from then on no async_write is outstanding or started and no
\* byte reaches the wire, whatever is sent afterwards.
C14_NoWriteAfterError ==
  [][ /\ (failedAt = -1 /\ failedAt' # -1) => (~socketOpen' /\ inFlight' = <<>>)
      /\ failedAt # -1 => (~socketOpen' /\ inFlight' = <<>> /\ wire' = wire) ]_vars

\* a frame was sent and enqueued after the failure and no write was started
C14_Witness ==
  /\ failedAt # -1
  /\ Len(enqueued) > failedAt
  /\ posted = <<>>
  /\ ~socketOpen
  /\ inFlight = <<>>
  /\ Len(m_writeQueue) = Len(enqueued) - failedAt + 1

(***************************************************************************)
(* The write queue by frame sizes: send, doWrite and writeQueueFront with   *)
(* each frame reduced to its size, so that the queue can hold more than    *)
(* 1 MiB.                                                                  *)
(***************************************************************************)
MaxQueued == 3   \* send calls in one run

kCongestionLimit == 1048576

\* sizes of frames: an Ack, a 4096-byte chunk, what fills the queue to the
\* limit exactly after an Ack, and a chunk of MAX_CHUNK_SIZE
FrameSizes ==
  { HEADER_SIZE + 8,
    HEADER_SIZE + 12 + kDefaultChunkSize,
    kCongestionLimit - (HEADER_SIZE + 8),
    HEADER_SIZE + 12 + MAX_CHUNK_SIZE }

\* the sum of sizes[lo..hi], by halves
RECURSIVE SumRange(_, _, _)
SumRange(sizes, lo, hi) ==
  IF lo > hi THEN 0
  ELSE IF lo = hi THEN sizes[lo]
  ELSE LET mid == (lo + hi) \div 2
       IN SumRange(sizes, lo, mid) + SumRange(sizes, mid + 1, hi)

SumSizes(sizes) == SumRange(sizes, 1, Len(sizes))

\* variant of isCongested that already reports the limit itself
IsCongestedAtLimit(queueSize) == queueSize >= kCongestionLimit

\* Connection::isCongested
IsCongested(queueSize) == queueSize > 1024 * 1024

queueRest ==
  <<recvVars, readVars, writeVars, sendVars, fileVars, rd_tail, sessVars, transVars, orchVars, e2eVars, lastCall>>

\* Connection::send: doWrite(frame) is posted to the executor
QzSend ==
  /\ qz_left > 0
  /\ \E size \in FrameSizes : qz_posted' = Append(qz_posted, size)
  /\ qz_left' = qz_left - 1
  /\ UNCHANGED <<qz_writeQueue, qz_queueSize, qz_writing, qz_socketOpen, qz_step, queueRest>>

\* Connection::doWrite
QzDoWrite ==
  /\ qz_posted # <<>>
  /\ qz_posted' = Tail(qz_posted)
  /\ qz_queueSize' = qz_queueSize + Head(qz_posted)
  /\ qz_writeQueue' = Append(qz_writeQueue, Head(qz_posted))
  /\ qz_writing' = (qz_writing \/ StartsWrite(qz_writeQueue'))
  /\ qz_step' = "doWrite"
  /\ UNCHANGED <<qz_socketOpen, qz_left, queueRest>>

\* the completion handler of async_write without error
QzOnWritten ==
  /\ qz_writing
  /\ qz_socketOpen
  /\ qz_queueSize' = qz_queueSize - Head(qz_writeQueue)
  /\ qz_writeQueue' = Tail(qz_writeQueue)
  /\ qz_writing' = (qz_writeQueue' # <<>>)
  /\ qz_step' = "written"
  /\ UNCHANGED <<qz_posted, qz_socketOpen, qz_left, queueRest>>

\* the completion handler with an error code
QzOnWriteError ==
  /\ qz_writing
  /\ qz_writing' = FALSE
  /\ qz_socketOpen' = FALSE
  /\ qz_writeQueue' = QueueAfterError(qz_writeQueue)
  /\ qz_step' = "failed"
  /\ UNCHANGED <<qz_posted, qz_queueSize, qz_left, queueRest>>

QueueInit ==
  /\ RecvInit(0, [names |-> {}, sizes |-> {}, faults |-> {}])
  /\ ~m_sendAckSet
  /\ ReadIdle
  /\ WriteIdle
  /\ SendIdle
  /\ FileIdle
  /\ rd_tail = <<>>
  /\ SessionIdle
  /\ TransferIdle /\ OrchIdle
  /\ E2eIdle
  /\ CallIdle
  /\ qz_posted = <<>>
  /\ qz_writeQueue = <<>>
  /\ qz_queueSize = 0
  /\ qz_writing = FALSE
  /\ qz_socketOpen = TRUE
  /\ qz_step = "none"
  /\ qz_left = MaxQueued

NextQueue == QzSend \/ QzDoWrite \/ QzOnWritten \/ QzOnWriteError

SpecQueue == QueueInit /\ [][NextQueue]_vars

\* C15: after every doWrite and every write completion m_queueSize is the
\* sum of the sizes of the frames in m_writeQueue, the frame being written
\* included; it is never negative; isCongested is true exactly when that sum
\* is greater than 1,048,576.
C15_CounterIsQueueSum ==
  /\ qz_queueSize = SumSizes(qz_writeQueue)
  /\ qz_queueSize >= 0
  /\ IsCongested(qz_queueSize) <=> (SumSizes(qz_writeQueue) > kCongestionLimit)
  /\ qz_writing => qz_writeQueue # <<>>

\* the queue holds exactly 1 MiB after a write completed: not congested
C15_Witness ==
  /\ qz_step = "written"
  /\ Len(qz_writeQueue) = 2
  /\ qz_queueSize = kCongestionLimit
  /\ ~IsCongested(qz_queueSize)

\* one more frame and it is congested
C15_WitnessCongested ==
  /\ qz_step = "doWrite"
  /\ qz_queueSize = kCongestionLimit + HEADER_SIZE + 8
  /\ IsCongested(qz_queueSize)

(***************************************************************************)
(* Server sessions (Server.h): who owns what, and when it is destroyed.    *)
(* A Session owns its FileWriter and FileReceiver through unique_ptr and   *)
(* shares its Connection; a Connection is also owned by the ack callback   *)
(* stored in the FileReceiver and by each of its outstanding handlers.     *)
(***************************************************************************)
MaxSessions == 4   \* sessions the server creates

\* Session::create: writer, then handler, then connection; the ack callback
\* set in the constructor holds a copy of m_connection
NewSession ==
  [session |-> "alive", m_writer |-> "alive", m_handler |-> "alive",
   m_connection |-> "alive", owners |-> {"session", "ackCallback"}]

\* a shared_ptr<Connection> goes away: the Connection dies with its last owner
Release(s, owner) ==
  LET left == s.owners \ {owner} IN
  [s EXCEPT !.owners = left,
            !.m_connection = IF left = {} THEN "destroyed" ELSE s.m_connection]

\* ~Session: members go in reverse declaration order, m_connection first,
\* then m_handler with the ack callback it stores, then m_writer
DestroySession(s) ==
  [Release(Release(s, "session"), "ackCallback") EXCEPT
     !.session = "destroyed", !.m_handler = "destroyed", !.m_writer = "destroyed"]

\* Connection::start: doRead arms a read whose handler holds shared_from_this()
Start(s) == [s EXCEPT !.owners = s.owners \cup {"read"}]

sessionRest == <<recvVars, readVars, writeVars, sendVars, fileVars, rd_tail, queueVars,
                 transVars, orchVars, e2eVars, lastCall>>

\* the completion handler of async_accept: start the session when the accept
\* succeeded, call doAccept for the next one; the handler's copy of session,
\* the last one, goes away when the handler returns
OnAccept ==
  /\ ss_accepting # 0
  /\ \E ok \in BOOLEAN :
       LET i == ss_accepting
           started == IF ok THEN Start(ss_sessions[i]) ELSE ss_sessions[i]
           done == [ss_sessions EXCEPT ![i] = DestroySession(started)]
       IN IF i < MaxSessions
            THEN ss_sessions' = Append(done, NewSession) /\ ss_accepting' = i + 1
            ELSE ss_sessions' = done /\ ss_accepting' = 0
  /\ UNCHANGED sessionRest

\* the read handler without error: the frames are handled, which may send an
\* Ack, and doRead arms the next read
OnSessionRead ==
  /\ \E i \in DOMAIN ss_sessions, sends \in BOOLEAN :
       /\ "read" \in ss_sessions[i].owners
       /\ ss_sessions' = [ss_sessions EXCEPT ![i].owners =
                            IF sends THEN @ \cup {"write"} ELSE @]
  /\ UNCHANGED <<ss_accepting, sessionRest>>

\* the read handler with an error: no read is armed again
OnSessionReadError ==
  /\ \E i \in DOMAIN ss_sessions :
       /\ "read" \in ss_sessions[i].owners
       /\ ss_sessions' = [ss_sessions EXCEPT ![i] = Release(@, "read")]
  /\ UNCHANGED <<ss_accepting, sessionRest>>

\* the last queued write completes, or a write fails
OnSessionWriteDone ==
  /\ \E i \in DOMAIN ss_sessions :
       /\ "write" \in ss_sessions[i].owners
       /\ ss_sessions' = [ss_sessions EXCEPT ![i] = Release(@, "write")]
  /\ UNCHANGED <<ss_accepting, sessionRest>>

\* Server constructor: doAccept creates the first session
SessionInit ==
  /\ RecvInit(0, [names |-> {}, sizes |-> {}, faults |-> {}])
  /\ ~m_sendAckSet
  /\ ReadIdle
  /\ WriteIdle
  /\ SendIdle
  /\ FileIdle
  /\ rd_tail = <<>>
  /\ QueueIdle
  /\ TransferIdle /\ OrchIdle
  /\ E2eIdle
  /\ CallIdle
  /\ ss_sessions = <<NewSession>>
  /\ ss_accepting = 1

NextSession == OnAccept \/ OnSessionRead \/ OnSessionReadError \/ OnSessionWriteDone

SpecSession == SessionInit /\ [][NextSession]_vars

\* C16 as the specification states it: while a session's Connection is alive
\* with a read or a write outstanding, the session's FileReceiver and
\* FileWriter have not been destroyed.
C16_HandlerOutlivesConnection ==
  \A i \in DOMAIN ss_sessions :
    (ss_sessions[i].m_connection = "alive" /\ ss_sessions[i].owners \cap {"read", "write"} # {})
      => (ss_sessions[i].m_handler = "alive" /\ ss_sessions[i].m_writer = "alive")

\* what the code does instead: the session is gone as soon as its accept
\* handler has returned, and its connection reads on
C16_Dangling ==
  /\ ss_sessions[1].session = "destroyed"
  /\ ss_sessions[1].m_handler = "destroyed"
  /\ ss_sessions[1].m_writer = "destroyed"
  /\ ss_sessions[1].m_connection = "alive"
  /\ ss_sessions[1].owners = {"read", "write"}

(***************************************************************************)
(* TransferOrchestrator::transferFiles on the transfer thread, calling     *)
(* sendFile for a single file or for each file of a directory, and         *)
(* request_stop from another thread.                                       *)
(***************************************************************************)
MaxDirFiles == 2   \* files in the directory

\* an empty file and one of MaxFileChunks full chunks and a byte
TransferSizes == {0, MaxFileChunks * kDefaultChunkSize + 1}

TransferFiles ==
  [exists : {TRUE}, size : TransferSizes, opens : {TRUE}, filename : {<<"a">>}]

transferRest ==
  <<recvVars, readVars, writeVars, fileVars, rd_tail, queueVars, sessVars, orchVars, e2eVars,
    lastCall>>

\* the call sendFile(m_sender, path, name)
CallSendFile(entry) ==
  /\ sf_local' = entry
  /\ sf_remoteName' = entry.filename
  /\ sf_pc' = "enter"
  /\ UNCHANGED <<sf_fileSize, sf_nameToSend, sf_offset, sf_filePos, sf_fileGood, emitted,
                 emitPolls, polls, congestedRun>>

\* one turn of the loop over the directory: stop_requested is tested before
\* the entry is sent
TransferDirEntry ==
  /\ tr_pc = "dir"
  /\ sf_pc = "finished"
  /\ IF tr_entries = <<>>
       THEN tr_pc' = "returned" /\ UNCHANGED <<tr_entries, sendVars>>
     ELSE IF tr_stop
       THEN tr_pc' = "cancelled" /\ UNCHANGED <<tr_entries, sendVars>>
     ELSE /\ CallSendFile(Head(tr_entries))
          /\ tr_entries' = Tail(tr_entries)
          /\ UNCHANGED tr_pc
  /\ UNCHANGED <<tr_stop, tr_stopAt, transferRest>>

\* the else branch: sourcePath is a file and is sent without any test
TransferSingleFile ==
  /\ tr_pc = "file"
  /\ CallSendFile(Head(tr_entries))
  /\ tr_entries' = <<>>
  /\ tr_pc' = "sending"
  /\ UNCHANGED <<tr_stop, tr_stopAt, transferRest>>

TransferSingleReturn ==
  /\ tr_pc = "sending"
  /\ sf_pc = "finished"
  /\ tr_pc' = "returned"
  /\ UNCHANGED <<tr_entries, tr_stop, tr_stopAt, sendVars, transferRest>>

\* TransferOrchestrator::requestStop while the thread runs
RequestStop ==
  /\ ~tr_stop
  /\ tr_pc \notin {"returned", "cancelled"}
  /\ tr_stop' = TRUE
  /\ tr_stopAt' = Len(emitted)
  /\ UNCHANGED <<tr_pc, tr_entries, sendVars, transferRest>>

\* startTransfer: the thread starts in transferFiles
TransferInit ==
  /\ RecvInit(0, [names |-> {}, sizes |-> {}, faults |-> {}])
  /\ ~m_sendAckSet
  /\ ReadIdle
  /\ WriteIdle
  /\ SendIdle
  /\ FileIdle
  /\ rd_tail = <<>>
  /\ QueueIdle
  /\ SessionIdle
  /\ E2eIdle
  /\ CallIdle
  /\ tr_pc \in {"file", "dir"}
  /\ tr_entries \in SeqsUpTo(TransferFiles, MaxDirFiles)
  /\ tr_pc = "file" => Len(tr_entries) = 1
  /\ tr_stop = FALSE
  /\ tr_stopAt = -1
  /\ OrchIdle

NextTransfer ==
  \/ TransferDirEntry
  \/ TransferSingleFile
  \/ TransferSingleReturn
  \/ RequestStop
  \/ SendFileEnter
  \/ SendHandshake
  \/ SendFileInfo
  \/ WhileFile
  \/ PollCongested
  \/ ReadChunk
  \/ SendFileDone

SpecTransfer == TransferInit /\ [][NextTransfer]_vars

\* the packets of a type among emitted[from..]
RECURSIVE CountFrom(_, _)
CountFrom(from, type) ==
  IF from > Len(emitted) THEN 0
  ELSE (IF emitted[from].type = type THEN 1 ELSE 0) + CountFrom(from + 1, type)

\* C17 as the specification states it: once a stop is requested the driver
\* sends at most the chunk it is sending and no further FileChunk, of this
\* file or of a later one.
C17_NoChunkAfterStop ==
  tr_stop => CountFrom(tr_stopAt + 1, "FileChunk") <= 1

\* what the code does instead: the stop came before the first chunk and
\* every chunk of the file and its FileDone were sent all the same
C17_ChunksAfterStop ==
  /\ tr_stop
  /\ tr_stopAt = 2
  /\ sf_pc = "finished"
  /\ CountFrom(tr_stopAt + 1, "FileChunk") = MaxFileChunks + 1
  /\ emitted[Len(emitted)].type = "FileDone"

\* the test between the files of a directory works: after a stop at most the
\* file whose sendFile call had begun is announced
C17_NoFileAfterStop ==
  tr_stop => CountFrom(tr_stopAt + 1, "FileInfo") <= 1

(***************************************************************************)
(* A sender connected to a receiver.  transferFiles and sendFile run on    *)
(* one side; the frames of their packets form the ordered byte stream;     *)
(* the receiving connection reads the stream in pieces of any length,      *)
(* extracts the frames and hands each to FileReceiver::onPacket, which     *)
(* writes through FileWriter.  The sender does not wait for the receiver,  *)
(* so a read may return any bytes sent so far.                             *)
(***************************************************************************)
MaxE2eBytes == 2   \* bytes in a source file
MaxE2eFiles == 2   \* files sent over the connection

\* the names of the source files, relative to the directory that is sent
E2eNames == {<<"a">>, <<"x", "/", "a">>}

\* the code of a character
Ord(c) ==
  CASE c = "a" -> 97 [] c = "b" -> 98 [] c = "x" -> 120
    [] c = "." -> 46 [] c = "/" -> 47 [] c = "\\" -> 92

\* a std::string as the bytes FileInfo::serialize copies
StringBytes(string) == [i \in 1..Len(string) |-> Ord(string[i])]

\* the bytes of a source file: they differ from file to file and byte to byte
SourceBytes(file) == [i \in 1..file.size |-> Ord(file.filename[1]) + i]

\* variant of the chunk data that repeats the first byte read
ChunkDataRepeated(file, offset, len) == [i \in 1..len |-> SourceBytes(file)[offset + 1]]

\* file.read into chunk.data at the read position, which equals chunk.offset
ChunkData(file, offset, len) == SubSeq(SourceBytes(file), offset + 1, offset + len)

\* Connection::send(pkt): the frame of a packet sendFile made from file
PacketFrame(packet, file) ==
  CASE packet.type = "Handshake" ->
         HandshakeFrame(packet.protocolVersion, packet.capabilities)
    [] packet.type = "FileInfo" ->
         FileInfoFrame(StringBytes(packet.fileName), packet.fileSize)
    [] packet.type = "FileChunk" ->
         FileChunkFrame(packet.offset, ChunkData(file, packet.offset, packet.len))
    [] packet.type = "FileDone" -> FileDoneFrame(packet.fileSize)

\* the bytes of the packets emitted[i..]; file counts the sendFile calls so
\* far, each of which starts with a Handshake
RECURSIVE WireFrom(_, _)
WireFrom(i, file) ==
  IF i > Len(emitted) THEN <<>>
  ELSE LET f == IF emitted[i].type = "Handshake" THEN file + 1 ELSE file
       IN BuildFrame(PacketFrame(emitted[i], e2e_files[f])) \o WireFrom(i + 1, f)

\* every byte the sender has handed to its connection
Wire == WireFrom(1, 0)

\* Handshake::deserialize
DeserializeHandshake(buf, size) ==
  IF size < 6
    THEN [ok |-> FALSE, error |-> TooSmall, protocolVersion |-> 0, capabilities |-> 0]
  ELSE [ok |-> TRUE, error |-> NoError, protocolVersion |-> ReadBigEndian(buf, 1, 2),
        capabilities |-> ReadBigEndian(buf, 3, 4)]

\* one element of a path from its bytes; a name outside NameAlphabet stands as "?"
ElementName(bytes) ==
  CASE bytes = <<97>> -> "a"
    [] bytes = <<120>> -> "x"
    [] bytes = <<46>> -> "."
    [] bytes = <<46, 46>> -> ".."
    [] OTHER -> "?"

\* the elements of the bytes from index i on: separators split, a run of
\* separators is one, a trailing separator leaves an empty last element
RECURSIVE PathElements(_, _, _)
PathElements(bytes, i, cur) ==
  IF i > Len(bytes)
    THEN (IF cur # <<>> THEN <<ElementName(cur)>>
          ELSE IF i > 1 /\ Len(bytes) > 1 THEN <<"">> ELSE <<>>)
  ELSE IF bytes[i] = 47
    THEN (IF cur = <<>> THEN <<>> ELSE <<ElementName(cur)>>) \o PathElements(bytes, i + 1, <<>>)
  ELSE PathElements(bytes, i + 1, Append(cur, bytes[i]))

\* std::filesystem::path(std::string) on a system whose separator is '/'
PathOfString(bytes) ==
  Path(bytes # <<>> /\ bytes[1] = 47,
       IF \A i \in DOMAIN bytes : bytes[i] = 47 THEN <<>> ELSE PathElements(bytes, 1, <<>>))

\* FileReceiver::onPacket(frame): the payload is deserialized and handled; a
\* deserialize that throws leaves the receiver as it was
FrameResult(frame) ==
  LET size == Len(frame.payload) IN
  CASE frame.type = PacketType("Handshake") ->
         LET pkt == DeserializeHandshake(frame.payload, size)
         IN [kind |-> "Handshake", malformed |-> ~pkt.ok, arg |-> pkt.protocolVersion,
             len |-> 0, offset |-> 0, data |-> <<>>,
             r |-> HandleHandshake(pkt.protocolVersion, ~pkt.ok)]
    [] frame.type = PacketType("FileInfo") ->
         LET pkt == DeserializeFileInfo(frame.payload, size)
         IN [kind |-> "FileInfo", malformed |-> ~pkt.ok, arg |-> pkt.fileSize,
             len |-> 0, offset |-> 0, data |-> <<>>,
             r |-> IF pkt.ok
                     THEN HandleFileInfo(PathOfString(pkt.fileName), pkt.fileSize, "none")
                     ELSE Unchanged(<<>>)]
    [] frame.type = PacketType("FileChunk") ->
         LET pkt == DeserializeFileChunk(frame.payload, size)
         IN [kind |-> "FileChunk", malformed |-> ~pkt.ok, arg |-> 0,
             len |-> Len(pkt.data), offset |-> pkt.offset, data |-> pkt.data,
             r |-> HandleFileChunk(pkt.offset, Len(pkt.data), ~pkt.ok)]
    [] frame.type = PacketType("FileDone") ->
         LET pkt == DeserializeU64(frame.payload, size)
         IN [kind |-> "FileDone", malformed |-> ~pkt.ok, arg |-> pkt.value,
             len |-> 0, offset |-> 0, data |-> <<>>,
             r |-> HandleFileDone(pkt.value, ~pkt.ok)]
    [] frame.type = PacketType("Ack") ->
         [kind |-> "Ack", malformed |-> ~DeserializeU64(frame.payload, size).ok, arg |-> 0,
          len |-> 0, offset |-> 0, data |-> <<>>, r |-> Unchanged(<<>>)]
    [] frame.type = PacketType("Error") ->
         [kind |-> "Error", malformed |-> ~DeserializeError(frame.payload, size).ok,
          arg |-> 0, len |-> 0, offset |-> 0, data |-> <<>>, r |-> Unchanged(<<>>)]
    [] OTHER ->
         [kind |-> "Unknown", malformed |-> FALSE, arg |-> 0, len |-> 0, offset |-> 0,
          data |-> <<>>, r |-> Unchanged(<<>>)]

\* what the files hold after the FileWriter calls of one onPacket
ContentAfter(d) ==
  IF d.r.calls = <<>> \/ d.r.calls[1].op \notin {"beginFile", "writeChunk"} THEN fsData
  ELSE IF d.r.calls[1].res # "ok" THEN fsData
  ELSE IF d.r.calls[1].op = "beginFile" THEN DataAfter(fsData, d.r.w.file.path, <<>>)
  ELSE DataAfter(fsData, m_file.path, WriteAt(fsData[m_file.path], d.offset, d.data))

e2eReadRest == <<rd_frames, rd_stream, reading, openOk, m_outFileOpen, m_receivedBytes,
                 delivered, faulted, posted>>

\* isCongested on the sender's connection, whose queue holds some of the
\* bytes sent so far
E2ePollCongested == PollCongestedOf({IsCongested(queued) : queued \in 0..Len(Wire)})

\* the completion handler of async_read_some: length of the bytes sent and
\* not yet read are appended to the incoming buffer, the extract loop starts
E2eOnRead ==
  /\ e2e_pc = "read"
  /\ \E sent \in {Wire} :
       /\ e2e_read < Len(sent)
       /\ \E length \in 1..Min(kTempBufferSize, Len(sent) - e2e_read) :
            /\ m_incomingBuffer' =
                 m_incomingBuffer \o SubSeq(sent, e2e_read + 1, e2e_read + length)
            /\ e2e_read' = e2e_read + length
  /\ e2e_pc' = "extract"
  /\ UNCHANGED <<e2e_files, e2eReadRest, recvVars, writeVars, sendVars, fileVars, rd_tail,
                 queueVars, sessVars, transVars, orchVars, lastCall>>

\* one turn of the extract loop: a whole frame at the front of the buffer is
\* handed to onPacket and erased; without one the next read is armed
E2eExtract ==
  /\ e2e_pc = "extract"
  /\ \E frame \in {TryParseFrame(m_incomingBuffer)} :
       IF ~frame.ok
         THEN /\ e2e_pc' = "read"
              /\ UNCHANGED <<m_incomingBuffer, recvVars, fsData>>
         ELSE \E d \in {FrameResult(frame)} :
                /\ OnPacket(d.kind, d.malformed, d.arg, d.len, d.r)
                /\ fsData' = ContentAfter(d)
                /\ m_incomingBuffer' = SubSeq(m_incomingBuffer,
                                              HEADER_SIZE + Len(frame.payload) + 1,
                                              Len(m_incomingBuffer))
                /\ UNCHANGED <<budget, e2e_pc>>
  /\ UNCHANGED <<e2e_files, e2e_read, e2eReadRest, writeVars, sendVars, wr_call, wr_left,
                 rd_tail, queueVars, sessVars, transVars, orchVars, lastCall>>

\* the files of a run: different names, any sizes up to MaxE2eBytes
E2eFiles ==
  [exists : {TRUE}, size : 0..MaxE2eBytes, opens : {TRUE}, filename : E2eNames]

E2eFileLists ==
  {files \in SeqsUpTo(E2eFiles, MaxE2eFiles) \ {<<>>} :
     \A i, j \in DOMAIN files : i # j => files[i].filename # files[j].filename}

\* a connected pair: the receiver's ack callback is set, its base directory
\* is empty, the sender starts transferFiles on a file or on a directory
E2eInit ==
  /\ RecvInit(0, [names |-> {}, sizes |-> {}, faults |-> {}])
  /\ m_sendAckSet
  /\ ReadIdle
  /\ WriteIdle
  /\ SendIdle
  /\ FileIdle
  /\ rd_tail = <<>>
  /\ QueueIdle
  /\ SessionIdle
  /\ CallIdle
  /\ e2e_files \in E2eFileLists
  /\ e2e_read = 0
  /\ e2e_pc = "read"
  /\ tr_pc \in {"file", "dir"}
  /\ tr_pc = "file" => Len(e2e_files) = 1 /\ Len(e2e_files[1].filename) = 1
  /\ tr_entries = e2e_files
  /\ tr_stop = FALSE
  /\ tr_stopAt = -1
  /\ OrchIdle

NextE2e ==
  \/ TransferDirEntry
  \/ TransferSingleFile
  \/ TransferSingleReturn
  \/ SendFileEnter
  \/ SendHandshake
  \/ SendFileInfo
  \/ WhileFile
  \/ E2ePollCongested
  \/ ReadChunk
  \/ SendFileDone
  \/ E2eOnRead
  \/ E2eExtract

SpecE2e == E2eInit /\ [][NextE2e]_vars

\* where the receiver puts a file: the base directory and the elements of its name
RECURSIVE NameElements(_, _)
NameElements(name, cur) ==
  IF name = <<>> THEN <<cur>>
  ELSE IF Head(name) = "/" THEN <<cur>> \o NameElements(Tail(name), "")
  ELSE NameElements(Tail(name), Head(name))

E2eTarget(file) == BaseDir.comps \o NameElements(file.filename, "")

E2eAcks == [i \in DOMAIN e2e_files |-> [type |-> "Ack", offset |-> e2e_files[i].size]]

\* the sender returned, the receiver read every byte and finished extracting
E2eDone == tr_pc = "returned" /\ e2e_pc = "read" /\ e2e_read = Len(Wire)

C21_WriteChunkCounts ==
  [][(wr_left' = wr_left - 1 /\ wr_call'.op = "writeChunk") =>
       IF ~m_file.open
         THEN /\ wr_call'.res = "NotOpen"
              /\ UNCHANGED <<m_bytesWritten, m_file, m_expectedSize, fsData, fsFiles, fsDirs>>
         ELSE /\ wr_call'.res = "ok"
              /\ m_bytesWritten' = m_bytesWritten + Len(wr_call'.arg.data)
              /\ m_file' = m_file]_vars

\* two chunks written over each other: bytesWritten counts both and exceeds
\* the length of the file
C21_Witness ==
  /\ wr_call.op = "writeChunk"
  /\ wr_call.res = "ok"
  /\ wr_call.bytesWritten > 0
  /\ m_file.open
  /\ m_bytesWritten > Len(fsData[m_file.path])

\* a chunk for a writer without a file
C21_WitnessNotOpen ==
  /\ wr_call.op = "writeChunk"
  /\ wr_call.res = "NotOpen"
  /\ fsData # <<>>

\* C22: finishFile(finalSize) returns true exactly when bytesWritten equals
\* finalSize and leaves the writer closed whatever it returns; close leaves
\* the writer closed, and on a writer that is already closed it changes
\* nothing; neither changes bytesWritten or any file.
C22_FinishAndClose ==
  [][(wr_left' = wr_left - 1 /\ wr_call'.op \in {"finishFile", "close"}) =>
       /\ ~m_file'.open
       /\ UNCHANGED <<m_bytesWritten, m_expectedSize, fsData, fsFiles, fsDirs>>
       /\ wr_call'.op = "finishFile" => wr_call'.res = (m_bytesWritten = wr_call'.arg)
       /\ (wr_call'.op = "close" /\ ~m_file.open) => m_file' = m_file]_vars

\* finishFile with a size other than the bytes written returned false and
\* closed the file that was open
C22_Witness ==
  /\ wr_call.op = "finishFile"
  /\ wr_call.res = FALSE
  /\ wr_call.file.open
  /\ wr_call.bytesWritten > 0
  /\ ~m_file.open

\* close on a writer whose file an earlier call had closed
C22_WitnessSecondClose ==
  /\ wr_call.op = "close"
  /\ ~wr_call.file.open
  /\ fsFiles # {}
  /\ wr_left = MaxWriterCalls - 3

(***************************************************************************)
(* The functions that keep no state, each called with every argument of a  *)
(* bounded set: lastCall holds the arguments and the result of the last    *)
(* call.                                                                   *)
(***************************************************************************)
MaxSafeLen == 4   \* elements of a requested path after the base

\* no component of the program runs
ComponentsIdle ==
  /\ RecvInit(0, [names |-> {}, sizes |-> {}, faults |-> {}])
  /\ ~m_sendAckSet
  /\ ReadIdle
  /\ WriteIdle
  /\ SendIdle
  /\ FileIdle
  /\ rd_tail = <<>>
  /\ QueueIdle
  /\ SessionIdle
  /\ TransferIdle /\ OrchIdle
  /\ E2eIdle

callRest == <<recvVars, readVars, writeVars, sendVars, fileVars, rd_tail, queueVars, sessVars,
              transVars, orchVars, e2eVars>>

\* the paths isPathSafe is asked about: base / name as FileWriter builds it,
\* short absolute paths, and the empty path
SafeRequests ==
  {PathAppend(BaseDir, Path(FALSE, comps)) : comps \in SeqsUpTo(NameAlphabet, MaxSafeLen)}
    \cup {Path(TRUE, comps) : comps \in SeqsUpTo(NameAlphabet, 2)}
    \cup {EmptyPath}

\* isPathSafe(requestedPath, baseDir) where the base directory exists or not;
\* a run makes one call
CallIsPathSafe ==
  \E requestedPath \in SafeRequests, baseExists \in BOOLEAN :
    /\ lastCall = NoCall
    /\ lastCall' = [op |-> "isPathSafe", requestedPath |-> requestedPath,
                    baseExists |-> baseExists,
                    res |-> IsPathSafe(requestedPath, BaseDir,
                                       IF baseExists THEN {Root, BaseDir.comps} ELSE {Root})]
    /\ UNCHANGED callRest

SafeInit == ComponentsIdle /\ lastCall = NoCall

NextSafe == CallIsPathSafe

SpecSafe == SafeInit /\ [][NextSafe]_vars

\* the directory a path leads to when "." stays and ".." goes up, the root
\* being its own parent
RECURSIVE Resolve(_, _, _)
Resolve(comps, i, cur) ==
  IF i > Len(comps) THEN cur
  ELSE IF comps[i] \in {"", "."} THEN Resolve(comps, i + 1, cur)
  ELSE IF comps[i] = ".." THEN Resolve(comps, i + 1, ParentDir(cur))
  ELSE Resolve(comps, i + 1, Append(cur, comps[i]))

\* the result the claim gives for a request
SafeByRelative(requestedPath) ==
  LET relative == LexicallyRelative(LexicallyNormal(Absolute(requestedPath)), BaseDir)
  IN relative # EmptyPath /\ ~relative.abs /\ relative.comps[1] # ".."

\* C23: isPathSafe returns false when the base cannot be canonicalized;
\* otherwise it returns true exactly when the normalized absolute request,
\* taken relative to the base, is non-empty, not absolute and does not start
\* with "..", which is exactly when the request leads to the base or below
\* it; so base/. and base/a/../x are safe, and base/.., base/x/../../x, the
\* root and absolute paths outside the base are not.
C23_IsPathSafe ==
  lastCall.op = "isPathSafe" =>
    LET requested == lastCall.requestedPath
        below == Path(FALSE, SubSeq(requested.comps, 2, Len(requested.comps)))
    IN /\ ~lastCall.baseExists => ~lastCall.res
       /\ lastCall.baseExists =>
            /\ lastCall.res = SafeByRelative(requested)
            /\ lastCall.res = IsPrefix(BaseDir.comps, Resolve(requested.comps, 1, Root))
            /\ requested = PathAppend(BaseDir, Path(FALSE, <<".">>)) => lastCall.res
            /\ requested = PathAppend(BaseDir, Path(FALSE, <<"a", "..", "x">>)) => lastCall.res
            /\ requested = PathAppend(BaseDir, Path(FALSE, <<"..">>)) => ~lastCall.res
            /\ requested = PathAppend(BaseDir, Path(FALSE, <<"x", "..", "..", "x">>))
                 => ~lastCall.res
            /\ requested = Path(TRUE, <<>>) => ~lastCall.res
            /\ (requested.comps # <<>> /\ requested.comps[1] = "x"
                  /\ \A i \in DOMAIN requested.comps : requested.comps[i] \in {"a", "x"})
                 => ~lastCall.res

\* base/x/../../x, which enters a subdirectory and leaves the base, was
\* refused with the base in place
C23_Witness ==
  /\ lastCall.op = "isPathSafe"
  /\ lastCall.baseExists
  /\ lastCall.requestedPath = PathAppend(BaseDir, Path(FALSE, <<"x", "..", "..", "x">>))
  /\ ~lastCall.res

\* base/a/../x was accepted
C23_WitnessSafe ==
  /\ lastCall.op = "isPathSafe"
  /\ lastCall.baseExists
  /\ lastCall.requestedPath = PathAppend(BaseDir, Path(FALSE, <<"a", "..", "x">>))
  /\ lastCall.res

(***************************************************************************)
(* The frame parsers on buffers of every size.  A buffer is given by the   *)
(* length its header declares, the type, its size and its first bytes: a   *)
(* buffer of 2^30 bytes cannot be written out, and the parsers read only   *)
(* its size and its header.                                                *)
(***************************************************************************)
MaxFrameBody == 2   \* payload bytes of a small frame

\* payload bytes, all different
FrameBody == [i \in 1..MaxFrameBody + 1 |-> 20 + i]

\* the lengths a header declares: small ones and those around kMaxPayloadSize;
\* 2^31 - 1 stands for every larger one
FrameLengths ==
  (0..MaxFrameBody)
    \cup {kMaxPayloadSize - 1, kMaxPayloadSize, kMaxPayloadSize + 1, 2147483647}

\* the sizes of the buffers tried for a declared length: up to a whole
\* header, around the end of the frame, and past it
FrameBufferSizes(declared) ==
  (0..HEADER_SIZE + 1)
    \cup (IF declared <= kMaxPayloadSize + 1
            THEN {n \in {HEADER_SIZE + declared - 1, HEADER_SIZE + declared,
                         HEADER_SIZE + declared + 1, HEADER_SIZE + declared + 3} :
                    n >= 0}
            ELSE {HEADER_SIZE + kMaxPayloadSize + 2})

\* the first n bytes of what is known of a buffer
KnownPrefix(known, n) == SubSeq(known, 1, Min(n, Len(known)))

FrameBuffers ==
  {[declared |-> declared, type |-> type, size |-> size,
    known |-> KnownPrefix(WriteBigEndian(declared, 8) \o WriteBigEndian(type, 2) \o FrameBody,
                          size)] :
     declared \in FrameLengths, type \in {PacketType("Handshake"), PacketType("Ack"), 9},
     size \in UNION {FrameBufferSizes(d) : d \in FrameLengths}}

\* the buffers whose size is one tried for their own declared length, and
\* the ten bytes FF FF FF FF FF FF FF FF 00 01
FrameInputs ==
  {b \in FrameBuffers : b.size \in FrameBufferSizes(b.declared)}
    \cup {[declared |-> 2147483647, type |-> 1, size |-> HEADER_SIZE,
           known |-> [i \in 1..HEADER_SIZE |-> IF i <= 8 THEN 255 ELSE i - 9]]}

CallTryParseFrame ==
  \E buffer \in FrameInputs :
    /\ lastCall = NoCall
    /\ lastCall' = [op |-> "tryParseFrame", buffer |-> buffer,
                    res |-> TryParseFrameAt(buffer.size, buffer.known)]
    /\ UNCHANGED callRest

CallParseFrame ==
  \E buffer \in FrameInputs :
    /\ lastCall = NoCall
    /\ lastCall' = [op |-> "parseFrame", buffer |-> buffer,
                    res |-> ParseFrameSpan(buffer.size, buffer.known)]
    /\ UNCHANGED callRest

FrameInit == ComponentsIdle /\ lastCall = NoCall

NextFrame ==
  \/ CallTryParseFrame
  \/ CallParseFrame

SpecFrame == FrameInit /\ [][NextFrame]_vars

\* the buffer holds a whole header and every byte of the payload it declares
WholeFrame(buffer) ==
  /\ buffer.size >= HEADER_SIZE
  /\ buffer.declared <= kMaxPayloadSize
  /\ buffer.size >= HEADER_SIZE + buffer.declared

\* C24: tryParseFrame returns a frame exactly when the buffer has at least
\* 10 bytes, the declared length is at most 2^30 and the buffer has at least
\* 10 + declared bytes; the frame has the header's type and a payload of the
\* declared length that starts behind the header; the first total_size bytes
\* of the buffer alone give the same frame, and every shorter prefix gives
\* none.
C24_TryParse ==
  lastCall.op = "tryParseFrame" =>
    LET buffer == lastCall.buffer
        f == lastCall.res
        total == HEADER_SIZE + buffer.declared
    IN /\ f.ok = WholeFrame(buffer)
       /\ f.ok =>
            /\ f.type = buffer.type
            /\ f.size = buffer.declared
            /\ f.payload = SubSeq(FrameBody, 1, Min(buffer.declared, Len(FrameBody)))
            /\ HEADER_SIZE + f.size = total
            /\ TryParseFrameAt(total, KnownPrefix(buffer.known, total)) = f
            /\ \A n \in (0..HEADER_SIZE + MaxFrameBody) \cup {total - 1} :
                 (n >= 0 /\ n < total)
                   => ~TryParseFrameAt(n, KnownPrefix(buffer.known, n)).ok

\* a frame with payload was taken from a buffer that holds more bytes
C24_Witness ==
  /\ lastCall.op = "tryParseFrame"
  /\ lastCall.res.ok
  /\ lastCall.res.size = MaxFrameBody
  /\ lastCall.buffer.size > HEADER_SIZE + MaxFrameBody

\* C25: with a whole header that declares more than 2^30, tryParseFrame
\* returns nothing and parseFrame throws for the length, however many bytes
\* follow; a declared length of exactly 2^30 with every payload byte there is
\* accepted by both.
C25_PayloadLimit ==
  lastCall.op \in {"tryParseFrame", "parseFrame"} =>
    LET buffer == lastCall.buffer IN
    /\ (buffer.size >= HEADER_SIZE /\ buffer.declared > kMaxPayloadSize) =>
         /\ ~lastCall.res.ok
         /\ lastCall.op = "parseFrame" => lastCall.res.error = PayloadTooLarge
    /\ (buffer.declared = kMaxPayloadSize /\ buffer.size >= HEADER_SIZE + kMaxPayloadSize) =>
         /\ lastCall.res.ok
         /\ lastCall.op = "parseFrame" => lastCall.res.frame.size = kMaxPayloadSize
         /\ lastCall.op = "tryParseFrame" => lastCall.res.size = kMaxPayloadSize

\* a buffer of exactly 10 + 2^30 bytes that declares 2^30 was parsed
C25_Witness ==
  /\ lastCall.op = "tryParseFrame"
  /\ lastCall.buffer.declared = kMaxPayloadSize
  /\ lastCall.buffer.size = HEADER_SIZE + kMaxPayloadSize
  /\ lastCall.res.ok

\* parseFrame refused the ten bytes FF FF FF FF FF FF FF FF 00 01 for the length
C25_WitnessHuge ==
  /\ lastCall.op = "parseFrame"
  /\ lastCall.buffer.size = HEADER_SIZE
  /\ lastCall.buffer.known[1] = 255
  /\ lastCall.res.error = PayloadTooLarge

\* more bytes than 2^30 + 10 behind a header that declares 2^30 + 1
C25_WitnessLong ==
  /\ lastCall.op = "tryParseFrame"
  /\ lastCall.buffer.declared = kMaxPayloadSize + 1
  /\ lastCall.buffer.size > HEADER_SIZE + kMaxPayloadSize + 1
  /\ ~lastCall.res.ok

\* C26: parseFrame returns a frame exactly when tryParseFrame does, and the
\* same one; otherwise it throws for the header when the buffer has fewer
\* than 10 bytes, else for the length when more than 2^30 is declared, else
\* for the body.
C26_ParseAgrees ==
  lastCall.op = "parseFrame" =>
    LET buffer == lastCall.buffer
        f == TryParseFrameAt(buffer.size, buffer.known)
    IN /\ lastCall.res.ok = f.ok
       /\ lastCall.res.ok = WholeFrame(buffer)
       /\ lastCall.res.ok => lastCall.res.frame = f
       /\ ~lastCall.res.ok =>
            lastCall.res.error =
              IF buffer.size < HEADER_SIZE THEN IncompleteHeader
              ELSE IF buffer.declared > kMaxPayloadSize THEN PayloadTooLarge
              ELSE IncompleteBody

\* a length above 2^30 was reported although the body is incomplete too
C26_Witness ==
  /\ lastCall.op = "parseFrame"
  /\ lastCall.buffer.declared = kMaxPayloadSize + 1
  /\ lastCall.buffer.size = HEADER_SIZE + 1
  /\ lastCall.res.error = PayloadTooLarge

\* a frame of 2^30 - 1 bytes that lacks its last byte
C26_WitnessBody ==
  /\ lastCall.op = "parseFrame"
  /\ lastCall.buffer.declared = kMaxPayloadSize - 1
  /\ lastCall.buffer.size = HEADER_SIZE + kMaxPayloadSize - 2
  /\ lastCall.res.error = IncompleteBody
(***************************************************************************)
(* The packet codec: payloadSize, serialize and deserialize of the six     *)
(* kinds, and buildFrame over them.  A string or a chunk is given by its   *)
(* size and its first bytes: ten MiB of data cannot be written out, and    *)
(* what serialize decides depends on the size alone.                       *)
(***************************************************************************)
MaxPacketLen == 2   \* bytes in a short name, message or chunk

\* n bytes, neighbours different
PacketText(n) == [i \in 1..n |-> 97 + (i % 26)]

\* a string or chunk of n bytes; up to one byte above kMaxStringLength every
\* byte is written out, of a longer one only that many
Text(n) == [size |-> n, known |-> PacketText(Min(n, MAX_STRING_LENGTH + 1))]

\* every byte of the string is written out
Whole(text) == Len(text.known) = text.size

StringSizes == (0..MaxPacketLen) \cup {MAX_STRING_LENGTH, MAX_STRING_LENGTH + 1}

ChunkSizes == (0..MaxPacketLen) \cup {MAX_CHUNK_SIZE, MAX_CHUNK_SIZE + 1}

\* field values with different bytes; 2^31 - 1 is the largest number used
U16Values == {0, 258, 65535}

U32Values == {0, 16909060, 2147483647}

U64Values == {0, 255, 256, 16909060, 2147483647}

\* instances of the six kinds, valid and not
Packets ==
  {[type |-> "Handshake", protocolVersion |-> v, capabilities |-> c] :
     v \in U16Values, c \in U32Values}
    \cup {[type |-> t, value |-> v] : t \in {"Ack", "FileDone"}, v \in U64Values}
    \cup {[type |-> "Error", code |-> c, message |-> Text(n)] :
            c \in U16Values, n \in StringSizes}
    \cup {[type |-> "FileInfo", fileSize |-> v, fileName |-> Text(n)] :
            v \in U32Values, n \in StringSizes}
    \cup {[type |-> "FileChunk", offset |-> v, data |-> Text(n)] :
            v \in U32Values, n \in ChunkSizes}

\* payloadSize() of each kind
PayloadSize(packet) ==
  CASE packet.type = "Handshake" -> 2 + 4
    [] packet.type \in {"Ack", "FileDone"} -> 8
    [] packet.type = "Error" -> 2 + 4 + packet.message.size
    [] packet.type = "FileInfo" -> 8 + 4 + packet.fileName.size
    [] packet.type = "FileChunk" -> 8 + 4 + packet.data.size

\* an empty std::vector<uint8_t>
NoBytes == [size |-> 0, known |-> <<>>]

\* writeBigEndian and out.insert at the end of out
PutBytes(out, bytes) == [size |-> out.size + Len(bytes), known |-> out.known \o bytes]

PutText(out, text) == [size |-> out.size + text.size, known |-> out.known \o text.known]

\* variant of the length checks that refuses the maximum itself
SerializeThrowsAtLimit(packet) ==
  CASE packet.type = "Error" -> packet.message.size >= MAX_STRING_LENGTH
    [] packet.type = "FileInfo" ->
         packet.fileName.size = 0 \/ packet.fileName.size >= MAX_STRING_LENGTH
    [] packet.type = "FileChunk" -> packet.data.size >= MAX_CHUNK_SIZE
    [] OTHER -> FALSE

\* the length checks of serialize, made before the first byte is written;
\* the check of FileChunk against UINT32_MAX can never fail behind the one
\* against kMaxChunkSize
SerializeThrows(packet) ==
  CASE packet.type = "Error" -> packet.message.size > MAX_STRING_LENGTH
    [] packet.type = "FileInfo" ->
         packet.fileName.size = 0 \/ packet.fileName.size > MAX_STRING_LENGTH
    [] packet.type = "FileChunk" -> packet.data.size > MAX_CHUNK_SIZE
    [] OTHER -> FALSE

\* variant of serialize that writes the length field behind the bytes
SerializeLengthLast(packet, out) ==
  IF SerializeThrows(packet) THEN [ok |-> FALSE, out |-> out]
  ELSE [ok |-> TRUE,
        out |->
          CASE packet.type = "Handshake" ->
                 PutBytes(PutBytes(out, WriteBigEndian(packet.protocolVersion, 2)),
                          WriteBigEndian(packet.capabilities, 4))
            [] packet.type \in {"Ack", "FileDone"} ->
                 PutBytes(out, WriteBigEndian(packet.value, 8))
            [] packet.type = "Error" ->
                 PutBytes(PutText(PutBytes(out, WriteBigEndian(packet.code, 2)),
                                  packet.message),
                          WriteBigEndian(packet.message.size, 4))
            [] packet.type = "FileInfo" ->
                 PutBytes(PutText(PutBytes(out, WriteBigEndian(packet.fileSize, 8)),
                                  packet.fileName),
                          WriteBigEndian(packet.fileName.size, 4))
            [] packet.type = "FileChunk" ->
                 PutBytes(PutText(PutBytes(out, WriteBigEndian(packet.offset, 8)),
                                  packet.data),
                          WriteBigEndian(packet.data.size, 4))]

\* serialize(out) of each kind: ok is FALSE where it throws std::length_error
Serialize(packet, out) ==
  IF SerializeThrows(packet) THEN [ok |-> FALSE, out |-> out]
  ELSE [ok |-> TRUE,
        out |->
          CASE packet.type = "Handshake" ->
                 PutBytes(PutBytes(out, WriteBigEndian(packet.protocolVersion, 2)),
                          WriteBigEndian(packet.capabilities, 4))
            [] packet.type \in {"Ack", "FileDone"} ->
                 PutBytes(out, WriteBigEndian(packet.value, 8))
            [] packet.type = "Error" ->
                 PutText(PutBytes(PutBytes(out, WriteBigEndian(packet.code, 2)),
                                  WriteBigEndian(packet.message.size, 4)),
                         packet.message)
            [] packet.type = "FileInfo" ->
                 PutText(PutBytes(PutBytes(out, WriteBigEndian(packet.fileSize, 8)),
                                  WriteBigEndian(packet.fileName.size, 4)),
                         packet.fileName)
            [] packet.type = "FileChunk" ->
                 PutText(PutBytes(PutBytes(out, WriteBigEndian(packet.offset, 8)),
                                  WriteBigEndian(packet.data.size, 4)),
                         packet.data)]

\* variant of buildFrame that measures the length with the frame header
BuildFrameOfTotalLength(packet) ==
  LET payloadSize == PayloadSize(packet)
      header == WriteBigEndian(HEADER_SIZE + payloadSize, 8)
                  \o WriteBigEndian(PacketType(packet.type), 2)
      s == Serialize(packet, PutBytes(NoBytes, header))
  IN [ok |-> s.ok, frame |-> IF s.ok THEN s.out ELSE NoBytes]

\* variant of buildFrame that returns the header it has written when
\* serialize throws
BuildFrameOfHeaderKept(packet) ==
  LET payloadSize == PayloadSize(packet)
      header == WriteBigEndian(payloadSize, 8)
                  \o WriteBigEndian(PacketType(packet.type), 2)
      s == Serialize(packet, PutBytes(NoBytes, header))
  IN [ok |-> TRUE, frame |-> s.out]

\* buildFrame(packet): the length, the type, then the serialized payload;
\* what serialize throws leaves buildFrame without a result
BuildFrameOf(packet) ==
  LET payloadSize == PayloadSize(packet)
      header == WriteBigEndian(payloadSize, 8)
                  \o WriteBigEndian(PacketType(packet.type), 2)
      s == Serialize(packet, PutBytes(NoBytes, header))
  IN [ok |-> s.ok, frame |-> IF s.ok THEN s.out ELSE NoBytes]

\* what the output buffer holds before serialize is called
PacketOutputs == {NoBytes, PutBytes(NoBytes, <<7>>)}

CallSerialize ==
  \E packet \in Packets, out \in PacketOutputs :
    /\ lastCall = NoCall
    /\ lastCall' = [op |-> "serialize", packet |-> packet, out |-> out,
                    res |-> Serialize(packet, out)]
    /\ UNCHANGED callRest

CallBuildFrame ==
  \E packet \in Packets :
    /\ lastCall = NoCall
    /\ lastCall' = [op |-> "buildFrame", packet |-> packet,
                    res |-> BuildFrameOf(packet)]
    /\ UNCHANGED callRest

\* P::deserialize(payload) of the kind named by type
Deserialize(type, buf, size) ==
  CASE type = "Handshake" -> DeserializeHandshake(buf, size)
    [] type \in {"Ack", "FileDone"} -> DeserializeU64(buf, size)
    [] type = "Error" -> DeserializeError(buf, size)
    [] type = "FileInfo" -> DeserializeFileInfo(buf, size)
    [] type = "FileChunk" -> DeserializeFileChunk(buf, size)

\* bytes that follow a payload in a longer buffer
TrailingBytes == <<200, 201>>

\* the sizes at which the payload of a packet is cut or extended
CutSizes(payloadSize) ==
  {n \in (0..13) \cup {payloadSize - 1} : n < payloadSize}
    \cup {payloadSize + n : n \in 0..Len(TrailingBytes)}

\* payloads made by serialize from the packets it accepts and that are written out
\* whole, cut short or followed by other bytes
SerializedInputs ==
  UNION {{[from |-> "serialize", type |-> packet.type, packet |-> packet, size |-> n,
           buf |-> KnownPrefix(Serialize(packet, NoBytes).out.known \o TrailingBytes, n)] :
            n \in CutSizes(PayloadSize(packet))} :
         packet \in {q \in Packets : Serialize(q, NoBytes).ok /\
                       (q.type = "FileChunk" => Whole(q.data))}}

\* the fixed header of a kind that carries a string or a chunk
FixedHeaderSize(type) == IF type = "Error" THEN 6 ELSE 12

\* the maximum of the length a kind declares
MaxDeclared(type) == IF type = "FileChunk" THEN MAX_CHUNK_SIZE ELSE MAX_STRING_LENGTH

\* payloads of a peer that declares any length: rest bytes follow the header
DeclaredInputs ==
  {[from |-> "peer", type |-> type, declared |-> declared, size |-> FixedHeaderSize(type) + rest,
    buf |-> WriteBigEndian(258, FixedHeaderSize(type) - 4) \o WriteBigEndian(declared, 4)
              \o PacketText(rest)] :
     type \in {"Error", "FileInfo", "FileChunk"},
     declared \in (0..MaxPacketLen + 1)
                    \cup {MAX_STRING_LENGTH, MAX_STRING_LENGTH + 1,
                          MAX_CHUNK_SIZE, MAX_CHUNK_SIZE + 1, 2147483647},
     rest \in (0..MaxPacketLen + 1) \cup {MAX_STRING_LENGTH, MAX_STRING_LENGTH + 1}}

\* the six bytes 00 01 FF FF FF FF as an Error; 2^31 - 1 stands for the length
HugeDeclaredInput ==
  [from |-> "peer", type |-> "Error", declared |-> 2147483647, size |-> 6,
   buf |-> <<0, 1, 255, 255, 255, 255>>]

DeserializeInputs == SerializedInputs \cup DeclaredInputs \cup {HugeDeclaredInput}

CallDeserialize ==
  \E input \in DeserializeInputs :
    /\ lastCall = NoCall
    /\ lastCall' = [op |-> "deserialize", input |-> input,
                    res |-> Deserialize(input.type, input.buf, input.size)]
    /\ UNCHANGED callRest

PacketInit == ComponentsIdle /\ lastCall = NoCall

NextPacket ==
  \/ CallSerialize
  \/ CallBuildFrame
  \/ CallDeserialize

SpecPacket == PacketInit /\ [][NextPacket]_vars

\* the instances serialize accepts
ValidPacket(packet) ==
  CASE packet.type = "Error" -> packet.message.size <= MAX_STRING_LENGTH
    [] packet.type = "FileInfo" ->
         packet.fileName.size \in 1..MAX_STRING_LENGTH
    [] packet.type = "FileChunk" -> packet.data.size <= MAX_CHUNK_SIZE
    [] OTHER -> TRUE

\* C27: for every valid packet p, buildFrame(p) has 10 + payloadSize(p)
\* bytes: payloadSize(p) in 8 bytes big-endian, the kind's code in 2 bytes
\* big-endian, then the serialized payload; parseFrame of it gives the kind
\* and a payload of payloadSize(p) bytes; a Handshake frame has 16 bytes, an
\* Ack and a FileDone frame 18.
C27_BuildFrame ==
  (lastCall.op = "buildFrame" /\ ValidPacket(lastCall.packet)) =>
    LET p == lastCall.packet
        frame == lastCall.res.frame
        parsed == ParseFrameSpan(frame.size, frame.known)
    IN /\ lastCall.res.ok
       /\ frame.size = 10 + PayloadSize(p)
       /\ SubSeq(frame.known, 1, 8) = WriteBigEndian(PayloadSize(p), 8)
       /\ ReadBigEndian(frame.known, 1, 8) = PayloadSize(p)
       /\ SubSeq(frame.known, 9, 10) = <<0, PacketType(p.type)>>
       /\ SubSeq(frame.known, 11, Len(frame.known)) = Serialize(p, NoBytes).out.known
       /\ parsed.ok
       /\ parsed.frame.type = PacketType(p.type)
       /\ parsed.frame.size = PayloadSize(p)
       /\ parsed.frame.payload = Serialize(p, NoBytes).out.known
       /\ p.type = "Handshake" => frame.size = 16
       /\ p.type \in {"Ack", "FileDone"} => frame.size = 18

\* the frame of a FileInfo with a name of kMaxStringLength bytes was built
C27_Witness ==
  /\ lastCall.op = "buildFrame"
  /\ lastCall.packet.type = "FileInfo"
  /\ lastCall.packet.fileName.size = MAX_STRING_LENGTH
  /\ lastCall.res.ok
  /\ lastCall.res.frame.size = 10 + 12 + MAX_STRING_LENGTH

\* the frame of a chunk of kMaxChunkSize bytes was built
C27_WitnessChunk ==
  /\ lastCall.op = "buildFrame"
  /\ lastCall.packet.type = "FileChunk"
  /\ lastCall.packet.data.size = MAX_CHUNK_SIZE
  /\ lastCall.res.ok

\* the decoded packet has the fields of packet
SamePacket(res, packet) ==
  CASE packet.type = "Handshake" ->
         /\ res.protocolVersion = packet.protocolVersion
         /\ res.capabilities = packet.capabilities
    [] packet.type \in {"Ack", "FileDone"} -> res.value = packet.value
    [] packet.type = "Error" ->
         res.code = packet.code /\ res.message = packet.message.known
    [] packet.type = "FileInfo" ->
         res.fileSize = packet.fileSize /\ res.fileName = packet.fileName.known
    [] packet.type = "FileChunk" ->
         res.offset = packet.offset /\ res.data = packet.data.known

\* C28: for each kind and every valid instance p, deserialize(serialize(p))
\* equals p field by field, and serialize appends exactly payloadSize(p)
\* bytes to the output.
C28_RoundTrip ==
  /\ (lastCall.op = "deserialize" /\ lastCall.input.from = "serialize"
        /\ lastCall.input.size = PayloadSize(lastCall.input.packet))
       => /\ lastCall.res.ok
          /\ SamePacket(lastCall.res, lastCall.input.packet)
  /\ (lastCall.op = "serialize" /\ ValidPacket(lastCall.packet))
       => /\ lastCall.res.ok
          /\ lastCall.res.out.size = lastCall.out.size + PayloadSize(lastCall.packet)
          /\ KnownPrefix(lastCall.res.out.known, lastCall.out.size) = lastCall.out.known
          /\ (lastCall.packet.type \in {"Handshake", "Ack", "FileDone"}
                => Len(lastCall.res.out.known) = lastCall.out.size + PayloadSize(lastCall.packet))

\* a FileInfo with a name of kMaxStringLength bytes came back from its bytes
C28_Witness ==
  /\ lastCall.op = "deserialize"
  /\ lastCall.input.from = "serialize"
  /\ lastCall.input.type = "FileInfo"
  /\ lastCall.input.size = 12 + MAX_STRING_LENGTH
  /\ lastCall.res.ok
  /\ Len(lastCall.res.fileName) = MAX_STRING_LENGTH

\* a chunk was appended to a vector that held a byte
C28_WitnessAppend ==
  /\ lastCall.op = "serialize"
  /\ lastCall.packet.type = "FileChunk"
  /\ lastCall.out.size = 1
  /\ lastCall.res.ok
  /\ lastCall.res.out.size = 1 + 12 + MaxPacketLen

\* the string or chunk a packet carries
Carried(packet) ==
  CASE packet.type = "Error" -> packet.message
    [] packet.type = "FileInfo" -> packet.fileName
    [] packet.type = "FileChunk" -> packet.data

\* C29: serialize fails and leaves the output buffer as it was for a FileInfo
\* with an empty name, a FileInfo name or Error message longer than 4096
\* bytes, and a FileChunk with more than 10 MiB of data; it succeeds at
\* exactly 4096 bytes and at exactly 10 MiB.
C29_SerializeLimits ==
  (lastCall.op = "serialize" /\ lastCall.packet.type \in {"Error", "FileInfo", "FileChunk"}) =>
    LET packet == lastCall.packet
        size == Carried(packet).size
        limit == IF packet.type = "FileChunk" THEN 10 * 1024 * 1024 ELSE 4096
        refused == ~lastCall.res.ok /\ lastCall.res.out = lastCall.out
    IN /\ (packet.type = "FileInfo" /\ size = 0) => refused
       /\ size > limit => refused
       /\ size = limit => lastCall.res.ok
       /\ ~lastCall.res.ok => lastCall.res.out = lastCall.out

\* a chunk of 10 MiB and one byte was refused and the byte in out is all it holds
C29_Witness ==
  /\ lastCall.op = "serialize"
  /\ lastCall.packet.type = "FileChunk"
  /\ lastCall.packet.data.size = 10 * 1024 * 1024 + 1
  /\ lastCall.out.size = 1
  /\ ~lastCall.res.ok
  /\ lastCall.res.out.size = 1

\* a chunk of 10 MiB was serialized
C29_WitnessChunk ==
  /\ lastCall.op = "serialize"
  /\ lastCall.packet.type = "FileChunk"
  /\ lastCall.packet.data.size = 10 * 1024 * 1024
  /\ lastCall.res.ok

\* an Error with a message of 4096 bytes was serialized
C29_WitnessMessage ==
  /\ lastCall.op = "serialize"
  /\ lastCall.packet.type = "Error"
  /\ lastCall.packet.message.size = 4096
  /\ lastCall.res.ok

\* a FileInfo with an empty name was refused
C29_WitnessEmpty ==
  /\ lastCall.op = "serialize"
  /\ lastCall.packet.type = "FileInfo"
  /\ lastCall.packet.fileName.size = 0
  /\ ~lastCall.res.ok

\* the fixed header of each kind
FixedSize(type) ==
  CASE type = "Handshake" -> 6
    [] type \in {"Ack", "FileDone"} -> 8
    [] type = "Error" -> 6
    [] type \in {"FileInfo", "FileChunk"} -> 12

\* the kinds that declare the length of a string or chunk
DeclaresLength(type) == type \in {"Error", "FileInfo", "FileChunk"}

\* the length the payload of an input declares
DeclaredLength(input) ==
  IF input.from = "peer" THEN input.declared ELSE Carried(input.packet).size

\* the string or chunk of a decoded packet
Decoded(type, res) ==
  CASE type = "Error" -> res.message
    [] type = "FileInfo" -> res.fileName
    [] type = "FileChunk" -> res.data

\* C30: deserialize of every kind fails with TooSmall when the payload is
\* shorter than the kind's fixed header, with TooLong when a declared length
\* is above the maximum of the kind, and with Truncated when a declared
\* length within the maximum is above the bytes that remain; so every strict
\* prefix of a serialized message fails, and on success the bytes behind the
\* declared lengths do not change the result.
C30_DeserializeErrors ==
  lastCall.op = "deserialize" =>
    LET input == lastCall.input
        res == lastCall.res
        fixed == FixedSize(input.type)
        declared == IF DeclaresLength(input.type) THEN DeclaredLength(input) ELSE 0
        limit == IF input.type = "FileChunk" THEN 10 * 1024 * 1024 ELSE 4096
        used == fixed + declared
    IN /\ input.size < fixed => (~res.ok /\ res.error = TooSmall)
       /\ (input.size >= fixed /\ declared > limit) => (~res.ok /\ res.error = TooLong)
       /\ (input.size >= fixed /\ declared <= limit /\ declared > input.size - fixed)
            => (~res.ok /\ res.error = Truncated)
       /\ (input.size >= fixed /\ declared <= limit /\ declared <= input.size - fixed)
            => res.ok
       /\ (input.from = "serialize" /\ input.size < PayloadSize(input.packet)) => ~res.ok
       /\ res.ok =>
            /\ res = Deserialize(input.type, KnownPrefix(input.buf, used), used)
            /\ DeclaresLength(input.type) =>
                 Decoded(input.type, res) = SubSeq(input.buf, fixed + 1, used)
            /\ input.from = "serialize" => SamePacket(res, input.packet)

\* a message of 4097 bytes, all of them in the payload, was refused as too long
C30_Witness ==
  /\ lastCall.op = "deserialize"
  /\ lastCall.input.from = "peer"
  /\ lastCall.input.type = "Error"
  /\ lastCall.input.declared = 4097
  /\ lastCall.input.size = 6 + 4097
  /\ lastCall.res.error = TooLong

\* a chunk header declaring 10 MiB with fewer bytes behind it was refused as
\* truncated
C30_WitnessTruncated ==
  /\ lastCall.op = "deserialize"
  /\ lastCall.input.from = "peer"
  /\ lastCall.input.type = "FileChunk"
  /\ lastCall.input.declared = 10 * 1024 * 1024
  /\ lastCall.input.size > 12
  /\ lastCall.res.error = Truncated

\* a serialized FileInfo lacking its last byte was refused
C30_WitnessPrefix ==
  /\ lastCall.op = "deserialize"
  /\ lastCall.input.from = "serialize"
  /\ lastCall.input.type = "FileInfo"
  /\ lastCall.input.size = PayloadSize(lastCall.input.packet) - 1
  /\ lastCall.input.size >= 12
  /\ ~lastCall.res.ok

\* a Handshake of five bytes was refused as too small
C30_WitnessSmall ==
  /\ lastCall.op = "deserialize"
  /\ lastCall.input.type = "Handshake"
  /\ lastCall.input.size = 5
  /\ lastCall.res.error = TooSmall

\* a serialized chunk followed by other bytes was decoded as without them
C30_WitnessTrailing ==
  /\ lastCall.op = "deserialize"
  /\ lastCall.input.from = "serialize"
  /\ lastCall.input.type = "FileChunk"
  /\ lastCall.input.size = PayloadSize(lastCall.input.packet) + Len(TrailingBytes)
  /\ lastCall.res.ok
  /\ Len(lastCall.res.data) = MaxPacketLen

\* C31: every FileInfo the codec accepts, in serialize and in deserialize
\* alike, has a name of 1 to 4096 bytes: a payload that declares a name of
\* length 0 is refused by FileInfo::deserialize, so that no empty name
\* reaches beginFile.
C31_NameLength ==
  /\ (lastCall.op = "serialize" /\ lastCall.packet.type = "FileInfo" /\ lastCall.res.ok)
       => lastCall.packet.fileName.size \in 1..4096
  /\ (lastCall.op = "deserialize" /\ lastCall.input.type = "FileInfo" /\ lastCall.res.ok)
       => Len(lastCall.res.fileName) \in 1..4096

\* a FileInfo payload of twelve bytes that declares a name of length 0 was
\* decoded into a packet with an empty name
C31_EmptyNameAccepted ==
  /\ lastCall.op = "deserialize"
  /\ lastCall.input.from = "peer"
  /\ lastCall.input.type = "FileInfo"
  /\ lastCall.input.declared = 0
  /\ lastCall.input.size = 12
  /\ lastCall.res.ok
  /\ lastCall.res.fileName = <<>>

\* C32 as first stated: a FileInfo that arrives while a file is open closes
\* that file without an integrity check and without an Ack, and
\* bytes_written restarts at 0.
C32_RestartsAlways ==
  (WellFormed("FileInfo") /\ ev.open) =>
    /\ Len(wcalls) = 1
    /\ wcalls[1].op = "beginFile"
    /\ evOut = <<>>
    /\ m_bytesWritten = 0

\* C32: a FileInfo that arrives while a file is open closes that file
\* without an integrity check and without an Ack; when it opens the new file
\* bytes_written restarts at 0, and when it is refused the receiver is
\* Rejected and emits no Ack; so the integrity check of a file counts only
\* the bytes written since the FileInfo that opened it.
C32_SupersededFile ==
  /\ (WellFormed("FileInfo") /\ ev.open) =>
       /\ Len(wcalls) = 1
       /\ wcalls[1].op = "beginFile"
       /\ evOut = <<>>
       /\ m_file.open <=> wcalls[1].res = "ok"
       /\ wcalls[1].res = "ok" => (m_bytesWritten = 0 /\ ~m_rejected)
       /\ wcalls[1].res # "ok" => m_rejected
  /\ m_rejected => evOut = <<>>
  /\ (WellFormed("FileDone") /\ ~ev.rejected) =>
       /\ wcalls = <<[op |-> "finishFile", arg |-> ev.arg, res |-> (ev.written = ev.arg)]>>
       /\ evOut # <<>> => ev.written = ev.arg

\* a FileInfo opened a new file while a file with bytes written was open
C32_Witness ==
  /\ WellFormed("FileInfo")
  /\ ev.open
  /\ ev.bytesWritten > 0
  /\ m_file.open
  /\ m_bytesWritten = 0

\* a FileInfo was refused while a file with bytes written was open
C32_WitnessRefused ==
  /\ WellFormed("FileInfo")
  /\ ev.open
  /\ ev.bytesWritten > 0
  /\ ~m_file.open
  /\ m_rejected
  /\ m_bytesWritten = ev.bytesWritten

\* C33: an Ack is emitted only for a FileDone that ends a file opened by a
\* successful FileInfo: a FileDone that arrives with no file open, before
\* any FileInfo or after the FileDone that finished the file, emits no Ack,
\* and no Ack is emitted before the first FileInfo.
C33_AckOnlyForOpenFile ==
  /\ (WellFormed("FileDone") /\ ~ev.open) => evOut = <<>>
  /\ ev.infoAfter = "none" => acks = <<>>

\* the first frame was a FileDone and an Ack was emitted for it
C33_AckWithoutFile ==
  /\ WellFormed("FileDone")
  /\ budget = MaxFrames - 1
  /\ ~ev.open
  /\ ev.infoAfter = "none"
  /\ acks = <<[type |-> "Ack", offset |-> 0]>>

\* three frames, one of them a successful FileInfo, and two Acks were emitted
C33_SecondAck ==
  /\ WellFormed("FileDone")
  /\ budget = MaxFrames - 3
  /\ ~ev.open
  /\ ev.infoAfter = "ok"
  /\ Len(acks) = 2

\* C34: whenever an Ack is emitted for a file, its offset is the file size
\* declared by the FileInfo that opened the file, the m_expectedSize that
\* beginFile remembered.
C34_AckIsExpectedSize ==
  (WellFormed("FileDone") /\ ev.open /\ evOut # <<>>) =>
    evOut = <<[type |-> "Ack", offset |-> m_expectedSize]>>

\* a file announced with MaxSize bytes was acknowledged with offset 0
C34_AckOtherSize ==
  /\ WellFormed("FileDone")
  /\ ev.open
  /\ m_expectedSize = MaxSize
  /\ ev.arg = 0
  /\ evOut = <<[type |-> "Ack", offset |-> 0]>>

\* C35: whenever finishFile returns true for an open file, which is when the
\* receiver emits Ack{offset = n} with n the final size, the file on disk is
\* complete: its length is n and every position in [0, n) was written by a
\* chunk (a position no chunk wrote reads as 0, the chunks hold no 0).
C35_AckedFileComplete ==
  (wr_call.op = "finishFile" /\ wr_call.file.open /\ wr_call.res) =>
    /\ Len(fsData[wr_call.file.path]) = wr_call.arg
    /\ \A i \in 1..wr_call.arg : fsData[wr_call.file.path][i] # 0

\* one byte written at offset 1 and the file finished with size 1: the file
\* has two bytes and no chunk wrote the first
C35_GapAcked ==
  /\ wr_call.op = "finishFile"
  /\ wr_call.file.open
  /\ wr_call.res
  /\ wr_call.arg = 1
  /\ fsData[wr_call.file.path] = <<0, 7>>

(***************************************************************************)
(* Backpressure: the chunk loop of sendFile on its own thread against the  *)
(* write queue of its connection, frames reduced to their sizes.  A run    *)
(* starts in the middle of a file, with the frames of earlier chunks       *)
(* posted or queued.                                                       *)
(***************************************************************************)
MaxPressureChunks == 2   \* chunks of the file that are still to be read

\* the frame of a FileChunk with len bytes of data
ChunkFrameSize(len) == HEADER_SIZE + 12 + len

\* the fewest full chunk frames that make isCongested true
CongestingFrames == (kCongestionLimit \div ChunkFrameSize(kDefaultChunkSize)) + 1

\* frames of full chunks
ChunkFrames(n) == [i \in 1..n |-> ChunkFrameSize(kDefaultChunkSize)]

\* how many frames of earlier chunks are posted and how many are queued when
\* the sender comes to its wait loop: all written, or a queue just below or
\* just above the limit, with the frame of the last chunk queued or still
\* posted
Backlogs ==
  {b \in {[posted |-> p, queued |-> q] :
            p \in {0, 1}, q \in {0, CongestingFrames - 1, CongestingFrames}} :
     b.posted + b.queued <= CongestingFrames}

pressureRest ==
  <<recvVars, readVars, writeVars, fileVars, rd_tail, sessVars, transVars, orchVars, e2eVars, lastCall,
    sf_local, sf_remoteName, sf_nameToSend, sf_filePos, sf_fileGood, emitted, emitPolls, polls,
    congestedRun>>

\* part_007 lines 65-67: one isCongested call, which reads m_queueSize; true
\* sleeps and calls again
PressurePoll ==
  /\ sf_pc = "congested"
  /\ sf_pc' = IF LeavesWait(IsCongested(qz_queueSize)) THEN "read" ELSE "congested"
  /\ UNCHANGED <<sf_fileSize, sf_offset, queueVars, pressureRest>>

\* part_007 lines 69-84 and the loop test of line 63: read up to
\* kDefaultChunkSize bytes, stop on none, else send, which posts doWrite
PressureReadChunk ==
  /\ sf_pc = "read"
  /\ LET bytesRead == BytesRead(sf_fileSize - sf_offset) IN
       IF bytesRead = 0
         THEN /\ sf_pc' = "done"
              /\ UNCHANGED <<sf_offset, qz_posted>>
         ELSE /\ qz_posted' = Append(qz_posted, ChunkFrameSize(bytesRead))
              /\ sf_offset' = sf_offset + bytesRead
              /\ sf_pc' = IF bytesRead = kDefaultChunkSize THEN "congested" ELSE "done"
  /\ UNCHANGED <<sf_fileSize, qz_writeQueue, qz_queueSize, qz_writing, qz_socketOpen, qz_step,
                 qz_left, pressureRest>>

\* part_007 lines 88-90: FileDone is sent and sendFile returns
PressureSendDone ==
  /\ sf_pc = "done"
  /\ qz_posted' = Append(qz_posted, HEADER_SIZE + 8)
  /\ sf_pc' = "finished"
  /\ UNCHANGED <<sf_fileSize, sf_offset, qz_writeQueue, qz_queueSize, qz_writing,
                 qz_socketOpen, qz_step, qz_left, pressureRest>>

PressureInit ==
  /\ RecvInit(0, [names |-> {}, sizes |-> {}, faults |-> {}])
  /\ ~m_sendAckSet
  /\ ReadIdle
  /\ WriteIdle
  /\ FileIdle
  /\ rd_tail = <<>>
  /\ SessionIdle
  /\ TransferIdle /\ OrchIdle
  /\ E2eIdle
  /\ CallIdle
  /\ sf_local = [exists |-> FALSE, size |-> 0, filename |-> <<>>, opens |-> FALSE]
  /\ sf_remoteName = <<>>
  /\ sf_nameToSend = <<>>
  /\ sf_filePos = 0
  /\ sf_fileGood = FALSE
  /\ emitted = <<>>
  /\ emitPolls = <<>>
  /\ polls = NoPolls
  /\ congestedRun = 0
  /\ \E backlog \in Backlogs, rest \in 0..MaxPressureChunks, tail \in {0, 1} :
       /\ sf_offset = (backlog.posted + backlog.queued) * kDefaultChunkSize
       /\ sf_fileSize = sf_offset + rest * kDefaultChunkSize + tail
       /\ qz_posted = ChunkFrames(backlog.posted)
       /\ qz_writeQueue = ChunkFrames(backlog.queued)
       /\ qz_queueSize = SumSizes(ChunkFrames(backlog.queued))
       /\ qz_writing = (backlog.queued > 0)
  /\ sf_pc = "congested"
  /\ qz_socketOpen = TRUE
  /\ qz_step = "none"
  /\ qz_left = 0

\* the steps of the sender's thread
PressureSender == PressurePoll \/ PressureReadChunk \/ PressureSendDone

\* the completion handler of the outstanding async_write, with either outcome
PressureCompletion == QzOnWritten \/ QzOnWriteError

NextPressure ==
  \/ PressurePoll
  \/ PressureReadChunk
  \/ PressureSendDone
  \/ QzDoWrite
  \/ QzOnWritten
  \/ QzOnWriteError

SpecPressure == PressureInit /\ [][NextPressure]_vars

\* the executor runs every posted handler and every write completes; the
\* sender's thread is scheduled
SpecPressureFair ==
  /\ SpecPressure
  /\ WF_vars(PressureSender)
  /\ WF_vars(QzDoWrite)
  /\ WF_vars(PressureCompletion)

\* bytes handed to send and not yet written to the socket
Outstanding == SumSizes(qz_posted) + qz_queueSize

\* C36: under every interleaving of the sender's thread and the executor,
\* the sender hands no FileChunk to send while the bytes handed to send and
\* not yet written, frames posted and not yet queued included, are more than
\* 1 MiB; so they never exceed 1 MiB plus one chunk frame.
C36_BackpressureBound ==
  /\ (sf_pc = "read" /\ sf_offset < sf_fileSize) => Outstanding <= 1024 * 1024
  /\ Outstanding <= 1024 * 1024 + ChunkFrameSize(kDefaultChunkSize)

\* with a queue just below the limit and the frame of the last chunk still
\* posted the sender left the wait loop and handed over one more chunk
C36_OverLimit ==
  /\ Len(qz_writeQueue) = CongestingFrames - 1
  /\ ~IsCongested(qz_queueSize)
  /\ qz_posted = ChunkFrames(2)
  /\ sf_pc = "congested"
  /\ Outstanding > 1024 * 1024 + ChunkFrameSize(kDefaultChunkSize)

\* C37: when the executor runs every posted handler and every write
\* completes, a sender in its wait loop eventually leaves it and sendFile
\* eventually returns, also when a write fails while the queue is congested.
C37_SenderReturns == (sf_pc = "congested") ~> (sf_pc = "finished")

\* a write failed while the queue was congested: the socket is closed, no
\* handler is posted, no write is outstanding, m_queueSize is still above the
\* limit and the sender is in its wait loop
C37_CongestedForever ==
  /\ sf_pc = "congested"
  /\ qz_step = "failed"
  /\ ~qz_socketOpen
  /\ ~qz_writing
  /\ qz_posted = <<>>
  /\ IsCongested(qz_queueSize)
  /\ sf_offset < sf_fileSize
  /\ ~ENABLED <<NextPressure>>_vars

(***************************************************************************)
(* Connection::send called with packets, valid and not, on the write side  *)
(* of SpecWrite: buildFrame runs in send, on the calling thread, before    *)
(* the doWrite handler is posted.                                          *)
(***************************************************************************)
MaxPacketSends == 2   \* send calls of a run

\* the packets handed to send: every kind of packet serialize refuses, and
\* short valid ones, whose frames are written out in full
SendPackets ==
  {p \in Packets :
     /\ p.type \notin {"Handshake", "Ack"}
     /\ p.type = "FileDone" => p.value = 0
     /\ p.type = "Error" => p.code = 0 /\ p.message.size > MAX_STRING_LENGTH
     /\ p.type = "FileInfo" => p.fileSize = 0 /\ p.fileName.size \notin 2..MAX_STRING_LENGTH
     /\ p.type = "FileChunk" => p.offset = 0 /\ p.data.size \notin 2..MAX_CHUNK_SIZE}

\* the write side as send may change it
SendVisible == <<posted, m_writeQueue, m_queueSize, inFlight, wire, enqueued, socketOpen>>

\* Connection::send(packet): an exception of buildFrame leaves send before
\* asio::post is reached
SendPacket ==
  /\ sendsLeft > 0
  /\ sendsLeft' = sendsLeft - 1
  /\ \E packet \in SendPackets :
       LET built == BuildFrameOf(packet)
       IN /\ posted' = IF built.ok THEN Append(posted, built.frame.known) ELSE posted
          /\ lastCall' = [op |-> "send", packet |-> packet, threw |-> ~built.ok,
                          before |-> SendVisible,
                          after |-> <<posted', m_writeQueue, m_queueSize, inFlight, wire,
                                      enqueued, socketOpen>>]
  /\ UNCHANGED <<m_writeQueue, m_queueSize, socketOpen, inFlight, wire, enqueued, failedAt>>
  /\ UNCHANGED <<recvVars, fileVars, rd_tail, queueVars, sessVars, transVars, orchVars,
                 e2eVars, rd_frames, rd_stream, reading, openOk, m_incomingBuffer,
                 m_outFileOpen, m_receivedBytes, delivered, faulted, sendVars>>

NextSendPacket == SendPacket \/ DoWrite \/ OnWritten \/ OnWriteError

\* a connection that has sent nothing yet
SendPacketInit ==
  /\ RecvInit(0, [names |-> {}, sizes |-> {}, faults |-> {}])
  /\ OtherIdle
  /\ m_sendAckSet = FALSE
  /\ rd_frames = <<>>
  /\ rd_stream = <<>>
  /\ reading = TRUE
  /\ openOk = TRUE
  /\ m_incomingBuffer = <<>>
  /\ m_outFileOpen = FALSE
  /\ m_receivedBytes = 0
  /\ delivered = <<>>
  /\ faulted = FALSE
  /\ posted = <<>>
  /\ m_writeQueue = <<>>
  /\ m_queueSize = 0
  /\ socketOpen = TRUE
  /\ inFlight = <<>>
  /\ wire = <<>>
  /\ enqueued = <<>>
  /\ sendsLeft = MaxPacketSends
  /\ failedAt = -1
  /\ SendIdle

SpecSendPacket == SendPacketInit /\ [][NextSendPacket]_vars

\* exactly one frame: the header and as many payload bytes as it declares
ExactFrame(frame) ==
  /\ Len(frame) >= HEADER_SIZE
  /\ Len(frame) = HEADER_SIZE + ReadBigEndian(frame, 1, 8)

\* C39: send of a packet whose serialization fails (a FileInfo with an empty
\* name or one above 4096 bytes, an Error with a message above 4096 bytes, a
\* FileChunk above 10 MiB) throws on the calling thread and posts nothing:
\* the posted handlers, the write queue, m_queueSize and the bytes on the
\* wire are as before the call, and every frame that is posted, queued or
\* being written is a whole frame, never a header without its payload.
C39_FailedSendPostsNothing ==
  /\ (lastCall.op = "send" /\ ~ValidPacket(lastCall.packet)) =>
       (lastCall.threw /\ lastCall.after = lastCall.before)
  /\ \A i \in DOMAIN posted : ExactFrame(posted[i])
  /\ \A i \in DOMAIN m_writeQueue : ExactFrame(m_writeQueue[i])
  /\ \A i \in DOMAIN inFlight : ExactFrame(inFlight[i])
  /\ \A i \in DOMAIN enqueued : ExactFrame(enqueued[i])

\* send of a FileChunk of 10 MiB + 1 threw while a frame was queued and being
\* written
C39_Witness ==
  /\ lastCall.op = "send"
  /\ lastCall.packet.type = "FileChunk"
  /\ lastCall.packet.data.size = MAX_CHUNK_SIZE + 1
  /\ lastCall.threw
  /\ Len(m_writeQueue) = 1
  /\ Len(inFlight) = 1
  /\ posted = <<>>
  /\ m_queueSize > 0

\* send of a FileInfo with an empty name threw after a frame had reached the wire
C39_WitnessEmptyName ==
  /\ lastCall.op = "send"
  /\ lastCall.packet.type = "FileInfo"
  /\ lastCall.packet.fileName.size = 0
  /\ lastCall.threw
  /\ wire # <<>>
  /\ sendsLeft = 0

(***************************************************************************)
(* TransferOrchestrator called from one thread: startTransfer with the     *)
(* transfer threads it starts and joins, transferFiles on each of them,    *)
(* and a caller that polls isTransferring as main does.                    *)
(***************************************************************************)
MaxStarts == 2       \* startTransfer calls of a run
MaxOrchFiles == 2    \* files in a source directory
MaxOrchChunks == 1   \* chunks of a source file

\* what sourcePath names: nothing, a file, or a directory; files gives the
\* chunks of each file: none, or MaxOrchChunks in every file
SourcePaths ==
  {[exists |-> FALSE, isDir |-> FALSE, files |-> <<>>]}
    \cup {[exists |-> TRUE, isDir |-> FALSE, files |-> <<c>>] : c \in {0, MaxOrchChunks}}
    \cup {[exists |-> TRUE, isDir |-> TRUE, files |-> [i \in 1..n |-> c]] :
            n \in 0..MaxOrchFiles, c \in {0, MaxOrchChunks}}

\* the packets sendFile hands to send for a readable file of that many chunks
SendFilePackets(chunks) ==
  <<"Handshake", "FileInfo">> \o [i \in 1..chunks |-> "FileChunk"] \o <<"FileDone">>

orchRest ==
  <<recvVars, readVars, writeVars, sendVars, fileVars, rd_tail, queueVars, sessVars,
    transVars, e2eVars, lastCall>>

\* isTransferring(): m_transferThread.joinable()
IsTransferring == m_transferThread # 0

\* variant of join that returns while the thread runs
ThreadJoinedEarly(t) == TRUE

\* m_transferThread.join() returns once the thread function has returned
ThreadJoined(t) == tr_threads[t].pc = "returned"

\* m_transferThread = std::jthread(...): the new thread starts in transferFiles
StartThread(path) ==
  /\ tr_threads' = Append(tr_threads,
                          [pc |-> "run", isDir |-> path.isDir, stop |-> FALSE,
                           files |-> path.files, file |-> 0, cur |-> <<>>])
  /\ m_transferThread' = Len(tr_threads) + 1

\* startTransfer(sourcePath) up to the start of the thread or, when a thread
\* is joinable, up to join
StartTransfer ==
  /\ tr_caller.pc = "idle"
  /\ tr_caller.calls < MaxStarts
  /\ \E path \in SourcePaths :
       IF ~path.exists
         THEN /\ tr_caller' = [tr_caller EXCEPT !.calls = @ + 1]
              /\ UNCHANGED <<m_transferThread, tr_threads>>
       ELSE IF IsTransferring
         THEN /\ tr_threads' = [tr_threads EXCEPT ![m_transferThread].stop = TRUE]
              /\ tr_caller' = [pc |-> "join", calls |-> tr_caller.calls + 1, path |-> path]
              /\ UNCHANGED m_transferThread
       ELSE /\ StartThread(path)
            /\ tr_caller' = [tr_caller EXCEPT !.calls = @ + 1]
  /\ UNCHANGED <<tr_sent, orchRest>>

\* startTransfer from the return of join: the new thread is started
StartTransferJoined ==
  /\ tr_caller.pc = "join"
  /\ ThreadJoined(m_transferThread)
  /\ StartThread(tr_caller.path)
  /\ tr_caller' = [pc |-> "idle", calls |-> tr_caller.calls, path |-> SourcePaths]
  /\ UNCHANGED <<tr_sent, orchRest>>

\* main after startTransfer: it goes on to poll and calls nothing else
BeginPolling ==
  /\ tr_caller.pc = "idle"
  /\ tr_caller.calls > 0
  /\ tr_caller' = [tr_caller EXCEPT !.pc = "poll"]
  /\ UNCHANGED <<m_transferThread, tr_threads, tr_sent, orchRest>>

\* while (client.isTransferring()) sleep_for(100ms)
PollIsTransferring ==
  /\ tr_caller.pc = "poll"
  /\ tr_caller' = [tr_caller EXCEPT !.pc = IF IsTransferring THEN "poll" ELSE "done"]
  /\ UNCHANGED <<m_transferThread, tr_threads, tr_sent, orchRest>>

\* transferFiles between two sendFile calls: the directory loop tests
\* stop_requested before each entry, the single file is sent without a test
TransferFilesNext(t) ==
  LET th == tr_threads[t] IN
  /\ th.pc = "run"
  /\ th.cur = <<>>
  /\ tr_threads' =
       [tr_threads EXCEPT ![t] =
          IF th.files = <<>> \/ (th.isDir /\ th.stop)
            THEN [th EXCEPT !.pc = "returned"]
          ELSE [th EXCEPT !.cur = SendFilePackets(Head(th.files)),
                          !.files = Tail(th.files),
                          !.file = th.file + 1]]
  /\ UNCHANGED <<m_transferThread, tr_caller, tr_sent, orchRest>>

\* sendFile on thread t hands its next packet to m_sender.send
TransferSend(t) ==
  LET th == tr_threads[t] IN
  /\ th.pc = "run"
  /\ th.cur # <<>>
  /\ tr_sent' = Append(tr_sent, [thread |-> t, file |-> th.file, type |-> Head(th.cur)])
  /\ tr_threads' = [tr_threads EXCEPT ![t].cur = Tail(th.cur)]
  /\ UNCHANGED <<m_transferThread, tr_caller, orchRest>>

TransferThread == \E t \in DOMAIN tr_threads : TransferFilesNext(t) \/ TransferSend(t)

\* the orchestrator after its constructor
OrchInit ==
  /\ RecvInit(0, [names |-> {}, sizes |-> {}, faults |-> {}])
  /\ ~m_sendAckSet
  /\ ReadIdle
  /\ WriteIdle
  /\ SendIdle
  /\ FileIdle
  /\ rd_tail = <<>>
  /\ QueueIdle
  /\ SessionIdle
  /\ TransferIdle
  /\ E2eIdle
  /\ CallIdle
  /\ m_transferThread = 0
  /\ tr_threads = <<>>
  /\ tr_caller = [pc |-> "idle", calls |-> 0, path |-> SourcePaths]
  /\ tr_sent = <<>>

NextOrch ==
  \/ StartTransfer
  \/ StartTransferJoined
  \/ BeginPolling
  \/ PollIsTransferring
  \/ \E t \in DOMAIN tr_threads : TransferFilesNext(t)
  \/ \E t \in DOMAIN tr_threads : TransferSend(t)

SpecOrch == OrchInit /\ [][NextOrch]_vars

\* every started thread is scheduled, a join that can return returns, and
\* the polling caller is scheduled
SpecOrchFair ==
  SpecOrch /\ WF_vars(TransferThread) /\ WF_vars(StartTransferJoined)
           /\ WF_vars(PollIsTransferring)

\* the thread function of every started thread has returned
AllReturned == \A t \in DOMAIN tr_threads : tr_threads[t].pc = "returned"

\* C38: isTransferring() is true only while a transfer is in progress: once
\* the transfer thread has sent its last file and its thread function has
\* returned, isTransferring() becomes false without another call on the
\* orchestrator, so that a caller polling it until false terminates.
C38_PollTerminates ==
  (tr_caller.pc = "poll" /\ AllReturned) ~> (tr_caller.pc = "done")

\* the thread function has returned after sending its file, nothing is left
\* to run, and isTransferring() is still true for the polling caller
C38_StillTransferring ==
  /\ tr_caller.pc = "poll"
  /\ tr_threads # <<>>
  /\ AllReturned
  /\ tr_sent # <<>>
  /\ tr_sent[Len(tr_sent)].type = "FileDone"
  /\ IsTransferring
  /\ ~ENABLED <<NextOrch>>_vars

\* the threads whose thread function has not returned
RunningThreads == {t \in DOMAIN tr_threads : tr_threads[t].pc = "run"}

\* C40: at most one transfer thread runs at a time: startTransfer called
\* while a transfer runs requests its stop and starts the new thread only
\* after the old one has finished, so the packets of two transfers are never
\* interleaved on the sender and no file's FileInfo..FileDone sequence is
\* interrupted by a packet of another file.
C40_OneTransferAtATime ==
  /\ Cardinality(RunningThreads) <= 1
  /\ \A i, k \in DOMAIN tr_sent : \A j \in i..k :
       /\ tr_sent[i].thread = tr_sent[k].thread => tr_sent[j].thread = tr_sent[i].thread
       /\ (tr_sent[i].thread = tr_sent[k].thread /\ tr_sent[i].file = tr_sent[k].file)
            => tr_sent[j].file = tr_sent[i].file

\* startTransfer came while the first transfer was sending a file: that
\* thread sent the rest of its file and returned, and the second thread has
\* sent packets of its own
C40_Witness ==
  /\ Len(tr_threads) = 2
  /\ tr_threads[1].stop
  /\ tr_threads[1].pc = "returned"
  /\ tr_threads[1].files # <<>>
  /\ \E i, k \in DOMAIN tr_sent :
       /\ tr_sent[i].thread = 1 /\ tr_sent[i].type = "FileDone"
       /\ tr_sent[k].thread = 2 /\ tr_sent[k].type = "FileDone"

====
